---- MODULE Spec2Model ----
(***************************************************************************)
(* Model of the smartdoc agent: the orchestration loop of                  *)
(* DocumentFormattingAgent (core/agent.py), its tool dispatcher and        *)
(* placeholder substitution, and the background job task that drives one   *)
(* run (api/endpoints.py).                                                 *)
(*                                                                         *)
(* Python values are records tagged by their type in field t.  Text whose  *)
(* length matters is a run-length encoded sequence of [c, n] segments.     *)
(***************************************************************************)
EXTENDS Integers, Sequences, FiniteSets, TLC

VARIABLES
    job_status,                   \* jobs_db[job_id]["status"]
    pc,                           \* position of the job's task / of run()
    i,                            \* number of loop iterations started by run()
    intermediate_steps,           \* run()'s list of (agent_action, observation) pairs
    full_original_analysis_json,  \* cache slot
    current_formatting_plan_json, \* cache slot
    full_modified_analysis_json,  \* cache slot
    current_doc_path,
    current_output_doc_path,
    llm_output,                   \* what agent.invoke returned on the latest iteration
    error_msg,                    \* run()'s local error_msg (Unbound until assigned)
    result,                       \* what run() returned, or the exception it raised
    progress,                     \* progress events emitted since the latest iteration_start
    llm_calls,                    \* number of agent.invoke calls made by run()
    dispatches,                   \* number of _execute_tool calls made by run()
    tool_calls,                   \* number of selected_tool.invoke calls
    callback_raised,              \* whether progress_callback raised during the latest step
    fn_in,                        \* arguments of the function applied (SpecSubst, SpecDispatch)
    fn_out,                       \* its result
    jobs_db,                      \* endpoints.py jobs_db: job id -> job record
    tasks,                        \* job id -> the background task scheduled for it
    response,                     \* the latest HTTP response of a process request
    agents,                       \* job id -> the agent its task constructed and runs
    active_connections,           \* ConnectionManager: job id -> list of websockets
    sockets,                      \* websocket -> the job of its endpoint and where it is
    broadcasts,                   \* broadcast -> its job and the sends still awaited
    delivered                     \* the messages websockets received

vars == << job_status, pc, i, intermediate_steps, full_original_analysis_json,
           current_formatting_plan_json, full_modified_analysis_json,
           current_doc_path, current_output_doc_path, llm_output, error_msg,
           result, progress, llm_calls, dispatches, tool_calls, callback_raised,
           fn_in, fn_out, jobs_db, tasks, response, agents,
           active_connections, sockets, broadcasts, delivered >>

runVars == << job_status, pc, i, intermediate_steps, full_original_analysis_json,
              current_formatting_plan_json, full_modified_analysis_json,
              current_doc_path, current_output_doc_path, llm_output, error_msg,
              result, progress, llm_calls, dispatches, tool_calls, callback_raised >>

fnVars == << fn_in, fn_out >>

wsVars == << active_connections, sockets, broadcasts, delivered >>

jobVars == << jobs_db, tasks, response, agents, wsVars >>

----------------------------------------------------------------------------
(* Python values *)

None == [t |-> "none"]

\* a str made of the given words; a placeholder token is a one-word str
Str(w) == [t |-> "str", w |-> w]

PLACEHOLDER_ORIGINAL_ANALYSIS == Str(<<"$FULL_ORIGINAL_ANALYSIS">>)
PLACEHOLDER_MODIFIED_ANALYSIS == Str(<<"$FULL_MODIFIED_ANALYSIS">>)
PLACEHOLDER_FORMATTING_PLAN == Str(<<"$CURRENT_FORMATTING_PLAN">>)

\* Python truthiness of a cache slot: None is falsy, so is an empty str
Truthy(v) == v.t # "none" /\ ~(v.t = "str" /\ v.len = 0)

\* an exception raised by a function of the model
Raise(kind, about) == [t |-> "raise", exc |-> kind, about |-> about]

Raised(r) == r.t = "raise"

----------------------------------------------------------------------------
(* _substitute_placeholders: action_input is a dict, modelled as the      *)
(* sequence of its items [k, v] in insertion order; self holds the three  *)
(* cache slots.  The result is the new dict, or the ValueError of the     *)
(* first item whose placeholder has no stored artifact.                   *)

\* a slip in the slot names: the original-analysis token reads the modified slot
SubstituteValueSwapped(value, self) ==
    IF value = PLACEHOLDER_ORIGINAL_ANALYSIS
    THEN IF Truthy(self.full_modified_analysis_json)
         THEN self.full_modified_analysis_json
         ELSE Raise("ValueError", "$FULL_ORIGINAL_ANALYSIS")
    ELSE IF value = PLACEHOLDER_MODIFIED_ANALYSIS
    THEN IF Truthy(self.full_modified_analysis_json)
         THEN self.full_modified_analysis_json
         ELSE Raise("ValueError", "$FULL_MODIFIED_ANALYSIS")
    ELSE IF value = PLACEHOLDER_FORMATTING_PLAN
    THEN IF Truthy(self.current_formatting_plan_json)
         THEN self.current_formatting_plan_json
         ELSE Raise("ValueError", "$CURRENT_FORMATTING_PLAN")
    ELSE value

SubstituteValue(value, self) ==
    IF value = PLACEHOLDER_ORIGINAL_ANALYSIS
    THEN IF Truthy(self.full_original_analysis_json)
         THEN self.full_original_analysis_json
         ELSE Raise("ValueError", "$FULL_ORIGINAL_ANALYSIS")
    ELSE IF value = PLACEHOLDER_MODIFIED_ANALYSIS
    THEN IF Truthy(self.full_modified_analysis_json)
         THEN self.full_modified_analysis_json
         ELSE Raise("ValueError", "$FULL_MODIFIED_ANALYSIS")
    ELSE IF value = PLACEHOLDER_FORMATTING_PLAN
    THEN IF Truthy(self.current_formatting_plan_json)
         THEN self.current_formatting_plan_json
         ELSE Raise("ValueError", "$CURRENT_FORMATTING_PLAN")
    ELSE value

Min(S) == CHOOSE n \in S : \A m \in S : n <= m

\* the loop over action_input.items(); a value without .items() raises
\* AttributeError, and the first item that cannot be substituted raises
SubstitutePlaceholders(action_input, self) ==
    IF action_input.t # "dict" THEN Raise("AttributeError", "items")
    ELSE LET items == action_input.items
             outs == [n \in 1..Len(items) |-> SubstituteValue(items[n].v, self)]
             bad == {n \in 1..Len(items) : Raised(outs[n])}
         IN  IF bad # {} THEN outs[Min(bad)]
             ELSE [t |-> "dict", w |-> <<"{...}">>,
                   items |-> [n \in 1..Len(items) |-> [k |-> items[n].k, v |-> outs[n]]]]

----------------------------------------------------------------------------
(* Strings and JSON.  A str is [t |-> "str", w |-> its tokens]: the token  *)
(* "{...}" stands for a serialised JSON object (whose content is carried   *)
(* by the other fields of the record), "[...]" for a serialised JSON list, *)
(* DQ and SQ are the two quote characters, any other token is plain text.  *)

DQ == "\""
SQ == "'"
NoKey == "<absent>"

\* json.loads: the parsed value, or JSONDecodeError
JsonLoads(s) ==
    IF s.w = <<"{...}">> THEN [s EXCEPT !.t = "dict"]
    ELSE IF s.w = <<"[...]">> THEN [s EXCEPT !.t = "list"]
    ELSE IF Len(s.w) = 3 /\ s.w[1] = DQ /\ s.w[3] = DQ /\ s.w[2] \notin {DQ, SQ}
    THEN Str(<<s.w[2]>>)
    ELSE IF s.w = <<"7">> THEN [t |-> "int"]
    ELSE IF s.w = <<"null">> THEN None
    ELSE Raise("JSONDecodeError", "")

\* json.dumps of a parsed dict or list
JsonDumps(v) == [v EXCEPT !.t = "str"]

\* str(x): a str is itself, a dict or list gives its Python repr (not JSON)
PyStr(v) == IF v.t = "str" THEN v ELSE [v EXCEPT !.t = "str", !.w = <<"repr">>]

RECURSIVE LStrip(_, _)
LStrip(w, ch) == IF w # <<>> /\ Head(w) = ch THEN LStrip(Tail(w), ch) ELSE w

RECURSIVE RStrip(_, _)
RStrip(w, ch) ==
    IF w # <<>> /\ w[Len(w)] = ch THEN RStrip(SubSeq(w, 1, Len(w) - 1), ch) ELSE w

\* s.strip(ch)
StripChar(w, ch) == RStrip(LStrip(w, ch), ch)

\* tool_input_from_llm.strip('"').strip("'")
StripQuotes(s) == Str(StripChar(StripChar(s.w, DQ), SQ))

----------------------------------------------------------------------------
(* Progress events: the type, the tool or variable named, and the text    *)
(* the event carries (empty where the model does not need it).            *)

Event(type, name, text) == [type |-> type, name |-> name, text |-> text]

----------------------------------------------------------------------------
(* _execute_tool *)

tool_names == << "analyze_document_structure", "create_formatting_plan",
                 "apply_contextual_formatting", "validate_formatting_result" >>

ToolNameSet == {tool_names[n] : n \in 1..Len(tool_names)}

\* json.dumps({"error": error_msg}) for an Action Input of an invalid type
InvalidTypeObservation ==
    [t |-> "str", w |-> <<"{...}">>, path |-> NoKey, err |-> TRUE, len |-> 80,
     about |-> "invalid type for Action Input"]

\* f"Error: Tool '{tool_name}' not found. Available tools: {[t.name for t in self.tools]}"
ToolNotFoundObservation(tool_name) ==
    [t |-> "str", w |-> <<"Error: Tool", tool_name, "not found. Available tools:">>,
     names |-> tool_names, path |-> NoKey, err |-> FALSE, len |-> 170]

\* f"Error executing tool {tool_name}: {str(e)}"
ToolErrorObservation(tool_name) ==
    [t |-> "str", w |-> <<"Error executing tool", tool_name>>,
     path |-> NoKey, err |-> FALSE, len |-> 60]

\* lines 164-180: the value handed to the tool, the invalid-type marker, or
\* the exception _substitute_placeholders raises
PayloadValueForTool(tool_input_from_llm, self) ==
    IF tool_input_from_llm.t = "str"
    THEN LET parsed_llm_input_dict == JsonLoads(tool_input_from_llm)
         IN  IF Raised(parsed_llm_input_dict)
             THEN StripQuotes(tool_input_from_llm)
             ELSE SubstitutePlaceholders(parsed_llm_input_dict, self)
    ELSE IF tool_input_from_llm.t = "dict"
    THEN SubstitutePlaceholders(tool_input_from_llm, self)
    ELSE [t |-> "invalid"]

\* a routing that takes every analysis for the analysis of the input document
StoredVariableUnrouted(tool_name, observation, self) ==
    IF tool_name = "analyze_document_structure" THEN "full_original_analysis_json"
    ELSE IF tool_name = "create_formatting_plan" THEN "current_formatting_plan_json"
    ELSE ""

\* a storage logic that takes the outcome of every tool for a plan
StoredVariableOfAnyTool(tool_name, observation, self) ==
    IF tool_name = "analyze_document_structure" THEN "full_original_analysis_json"
    ELSE "current_formatting_plan_json"

\* lines 201-225: the cache slot the observation is stored in ("" for none)
StoredVariable(tool_name, observation, self) ==
    LET parsed_observation_for_storage ==
            IF observation.t = "str" THEN JsonLoads(observation) ELSE observation
        parsed == parsed_observation_for_storage
    IN  IF Raised(parsed) THEN ""
        ELSE IF tool_name = "analyze_document_structure" /\ parsed.t = "dict"
                /\ parsed.path # NoKey
        THEN IF parsed.path = self.current_doc_path
             THEN "full_original_analysis_json"
             ELSE IF parsed.path = self.current_output_doc_path
             THEN "full_modified_analysis_json"
             ELSE ""
        ELSE IF tool_name = "create_formatting_plan"
        THEN IF observation.t = "str" \/ parsed.t \in {"dict", "list"}
             THEN "current_formatting_plan_json"
             ELSE ""
        ELSE ""

\* the agent after the storage logic of lines 201-225
StoreObservation(tool_name, observation, self) ==
    LET variable == StoredVariable(tool_name, observation, self)
    IN  IF variable = "full_original_analysis_json"
        THEN [self EXCEPT !.full_original_analysis_json = observation]
        ELSE IF variable = "full_modified_analysis_json"
        THEN [self EXCEPT !.full_modified_analysis_json = observation]
        ELSE IF variable = "current_formatting_plan_json"
        THEN [self EXCEPT !.current_formatting_plan_json =
                 IF observation.t = "str" THEN observation ELSE JsonDumps(observation)]
        ELSE self

\* the data_store event of lines 210, 213, 218, 221
StoreEvents(tool_name, observation, self) ==
    LET variable == StoredVariable(tool_name, observation, self)
    IN  IF variable = "" THEN <<>> ELSE <<Event("data_store", variable, <<>>)>>

\* The whole of _execute_tool.  outcome is what selected_tool.invoke does when
\* it is called: [kind |-> "returns", obs |-> the observation] or
\* [kind |-> "throws"].  The result: ret is the returned observation or the
\* exception that leaves _execute_tool, self the agent afterwards, invoked
\* whether a tool was invoked, arg the tool_input it was given, events the
\* progress events emitted.
ExecuteTool(tool_name, tool_input_from_llm, self, outcome) ==
    LET payload_value_for_tool == PayloadValueForTool(tool_input_from_llm, self)
        start == <<Event("tool_start", tool_name, <<>>)>>
    IN  IF payload_value_for_tool.t = "invalid"
        THEN [ret |-> InvalidTypeObservation, self |-> self, invoked |-> FALSE,
              arg |-> None, events |-> start \o <<Event("error", tool_name, <<>>)>>]
        ELSE IF Raised(payload_value_for_tool)
        THEN [ret |-> payload_value_for_tool, self |-> self, invoked |-> FALSE,
              arg |-> None, events |-> start]
        ELSE IF tool_name \notin ToolNameSet
        THEN [ret |-> ToolNotFoundObservation(tool_name), self |-> self,
              invoked |-> FALSE, arg |-> None,
              events |-> start \o <<Event("error", tool_name, <<>>)>>]
        ELSE IF outcome.kind = "throws"
        THEN [ret |-> ToolErrorObservation(tool_name), self |-> self,
              invoked |-> TRUE, arg |-> payload_value_for_tool,
              events |-> start \o <<Event("error", tool_name, <<>>)>>]
        ELSE LET observation == outcome.obs
                 after == StoreObservation(tool_name, observation, self)
             IN  [ret |-> PyStr(observation), self |-> after, invoked |-> TRUE,
                  arg |-> payload_value_for_tool,
                  events |-> start \o <<Event("tool_end", tool_name, <<>>)>>
                             \o StoreEvents(tool_name, observation, self)]

----------------------------------------------------------------------------
(* Text whose length or content the loop looks at: a sequence of segments *)
(* [c |-> character, n |-> how many times it is repeated].  The marker    *)
(* "Final Answer:" is one character of the model, MarkerWidth wide.       *)

Seg(c, n) == [c |-> c, n |-> n]

FinalAnswerMarker == "Final Answer:"
MarkerWidth == 13
Whitespace == {" "}

CharWidth(c) == IF c = FinalAnswerMarker THEN MarkerWidth ELSE 1

RECURSIVE TextLen(_)
TextLen(s) == IF s = <<>> THEN 0 ELSE Head(s).n * CharWidth(Head(s).c) + TextLen(Tail(s))

\* s[:k]
RECURSIVE Truncate(_, _)
Truncate(s, k) ==
    IF s = <<>> \/ k <= 0 THEN <<>>
    ELSE LET h == Head(s)
             width == h.n * CharWidth(h.c)
         IN  IF width <= k THEN <<h>> \o Truncate(Tail(s), k - width)
             ELSE IF CharWidth(h.c) = 1 THEN <<Seg(h.c, k)>>
             ELSE (IF k \div CharWidth(h.c) > 0
                   THEN <<Seg(h.c, k \div CharWidth(h.c))>> ELSE <<>>)
                  \o (IF k % CharWidth(h.c) > 0
                      THEN <<Seg("Final Answer: (cut)", k % CharWidth(h.c))>> ELSE <<>>)

\* "Final Answer:" in s
ContainsMarker(s) == \E n \in 1..Len(s) : s[n].c = FinalAnswerMarker

\* a slip in the index: s.split("Final Answer:")[1], what follows the first marker
AfterFirstMarker(s) ==
    LET at == {n \in 1..Len(s) : s[n].c = FinalAnswerMarker}
        first == CHOOSE n \in at : \A m \in at : n <= m
        rest == SubSeq(s, first + 1, Len(s))
        more == {n \in 1..Len(rest) : rest[n].c = FinalAnswerMarker}
        next == CHOOSE n \in more : \A m \in more : n <= m
    IN  IF at = {} THEN s
        ELSE IF more = {} THEN rest
        ELSE SubSeq(rest, 1, next - 1)

\* s.split("Final Answer:")[-1]
AfterLastMarker(s) ==
    LET at == {n \in 1..Len(s) : s[n].c = FinalAnswerMarker}
        last == CHOOSE n \in at : \A m \in at : m <= n
    IN  IF at = {} THEN s ELSE SubSeq(s, last + 1, Len(s))

RECURSIVE LStripText(_)
LStripText(s) == IF s # <<>> /\ Head(s).c \in Whitespace THEN LStripText(Tail(s)) ELSE s

RECURSIVE RStripText(_)
RStripText(s) ==
    IF s # <<>> /\ s[Len(s)].c \in Whitespace
    THEN RStripText(SubSeq(s, 1, Len(s) - 1)) ELSE s

\* s.strip()
StripText(s) == RStripText(LStripText(s))

----------------------------------------------------------------------------
(* run(): the loop of lines 256-322, one action of the model for each way *)
(* an iteration can go.                                                    *)

max_iterations == 12
MAX_OBS_LEN_SCRATCHPAD == 1000
MAX_LAST_OUTPUT_LEN == 500

Unbound == [t |-> "unbound"]
NoPath == "<none>"
NoResult == [kind |-> "none"]
NoOutput == [shape |-> "none"]

Return(prefix, text) == [kind |-> "return", prefix |-> prefix, text |-> text]
RaiseOut(exc) == [kind |-> "raise", exc |-> exc]

\* the agent's fields that _execute_tool reads and writes
Self ==
    [full_original_analysis_json |-> full_original_analysis_json,
     current_formatting_plan_json |-> current_formatting_plan_json,
     full_modified_analysis_json |-> full_modified_analysis_json,
     current_doc_path |-> current_doc_path,
     current_output_doc_path |-> current_output_doc_path]

\* a scratchpad that takes every observation whole
ScratchpadObservationWhole(observation_str) ==
    [of |-> observation_str, len |-> observation_str.len, truncated |-> FALSE]

\* lines 303-308: the observation as it enters the scratchpad: the first len
\* characters of observation_str, and whether "... (truncated, original
\* length N)" follows them
ScratchpadObservation(observation_str) ==
    IF observation_str.len > MAX_OBS_LEN_SCRATCHPAD
    THEN [of |-> observation_str, len |-> MAX_OBS_LEN_SCRATCHPAD, truncated |-> TRUE]
    ELSE [of |-> observation_str, len |-> observation_str.len, truncated |-> FALSE]

\* lines 312-317, the handler of an exception e raised inside the loop body:
\* line 314 reads the local error_msg, which only line 290 assigns
ExceptHandler(e, bound_error_msg) ==
    IF bound_error_msg = Unbound
    THEN RaiseOut("UnboundLocalError")
    ELSE Return("An error occurred in the agent loop: ", <<Seg(e, 1)>>)

\* a slip in the key: the lookup never finds the answer and gives the default
FinishAnswerDefault(out) == <<Seg("No final answer from AgentFinish.", 1)>>

\* line 274: llm_output.return_values.get("output", "No final answer from AgentFinish.")
FinishAnswer(out) ==
    IF out.has_output THEN out.output ELSE <<Seg("No final answer from AgentFinish.", 1)>>

IterStartEvents ==
    << Event("iteration_start", "", <<>>), Event("llm_call_start", "", <<>>) >>

\* lines 273-277: the engine returns an AgentFinish
IterFinish(out) ==
    /\ pc = "iterating" /\ i < max_iterations
    /\ out.shape = "AgentFinish"
    /\ LET final_answer == FinishAnswer(out)
       IN  /\ result' = Return("", final_answer)
           /\ progress' = IterStartEvents \o
                  << Event("llm_call_end", "", <<>>),
                     Event("agent_finish", "", final_answer) >>
    /\ llm_output' = out
    /\ i' = i + 1
    /\ llm_calls' = llm_calls + 1
    /\ pc' = "returned"
    /\ UNCHANGED << job_status, intermediate_steps, full_original_analysis_json,
                    current_formatting_plan_json, full_modified_analysis_json,
                    current_doc_path, current_output_doc_path, error_msg,
                    dispatches, tool_calls, fn_in, fn_out, jobVars >>

\* lines 279-293: the engine returns neither an AgentFinish nor an AgentAction
IterOther(out) ==
    /\ pc = "iterating" /\ i < max_iterations
    /\ out.shape = "Other"
    /\ LET final_answer == out.text
           log == IF out.has_log
                  THEN <<Event("debug", "LLM Log", out.log)>> ELSE <<>>
       IN  IF ContainsMarker(final_answer)
           THEN /\ result' = Return("", StripText(AfterLastMarker(final_answer)))
                /\ progress' = IterStartEvents \o
                       <<Event("llm_call_end", "", <<>>)>> \o log \o
                       <<Event("agent_finish", "LLM direct final answer",
                               StripText(AfterLastMarker(final_answer)))>>
                /\ UNCHANGED error_msg
           ELSE /\ error_msg' = [t |-> "str", text |-> Truncate(out.text, MAX_LAST_OUTPUT_LEN)]
                /\ result' = Return("Agent error: Unexpected output type from LLM. Last output: ",
                                    Truncate(out.text, MAX_LAST_OUTPUT_LEN))
                /\ progress' = IterStartEvents \o
                       <<Event("llm_call_end", "", <<>>)>> \o log \o
                       <<Event("error", "", Truncate(out.text, MAX_LAST_OUTPUT_LEN))>>
    /\ llm_output' = out
    /\ i' = i + 1
    /\ llm_calls' = llm_calls + 1
    /\ pc' = "returned"
    /\ UNCHANGED << job_status, intermediate_steps, full_original_analysis_json,
                    current_formatting_plan_json, full_modified_analysis_json,
                    current_doc_path, current_output_doc_path,
                    dispatches, tool_calls, fn_in, fn_out, jobVars >>

\* line 269 raises: the handler of lines 312-317 runs
IterEngineThrows ==
    /\ pc = "iterating" /\ i < max_iterations
    /\ LET out == ExceptHandler("engine error", error_msg)
       IN  /\ result' = out
           /\ pc' = IF out.kind = "raise" THEN "raised" ELSE "returned"
           /\ progress' = IterStartEvents \o
                  (IF out.kind = "raise" THEN <<>> ELSE <<Event("error", "", <<>>)>>)
    /\ llm_output' = NoOutput
    /\ i' = i + 1
    /\ llm_calls' = llm_calls + 1
    /\ UNCHANGED << job_status, intermediate_steps, full_original_analysis_json,
                    current_formatting_plan_json, full_modified_analysis_json,
                    current_doc_path, current_output_doc_path, error_msg,
                    dispatches, tool_calls, fn_in, fn_out, jobVars >>

\* lines 295-310: the engine returns an AgentAction; outcome is what the tool
\* does if _execute_tool invokes it
IterAction(out, outcome) ==
    /\ pc = "iterating" /\ i < max_iterations
    /\ out.shape = "AgentAction"
    /\ LET agent_action == out
           done == ExecuteTool(agent_action.tool, agent_action.tool_input, Self, outcome)
           observation_str == done.ret
           events == IterStartEvents \o <<Event("llm_call_end", "", <<>>)>> \o done.events
       IN  /\ full_original_analysis_json' = done.self.full_original_analysis_json
           /\ current_formatting_plan_json' = done.self.current_formatting_plan_json
           /\ full_modified_analysis_json' = done.self.full_modified_analysis_json
           /\ tool_calls' = IF done.invoked THEN tool_calls + 1 ELSE tool_calls
           /\ IF Raised(observation_str)
              THEN LET handled == ExceptHandler(observation_str.exc, error_msg)
                   IN  /\ result' = handled
                       /\ pc' = IF handled.kind = "raise" THEN "raised" ELSE "returned"
                       /\ progress' = events \o
                              (IF handled.kind = "raise" THEN <<>>
                               ELSE <<Event("error", "", <<>>)>>)
                       /\ UNCHANGED intermediate_steps
              ELSE /\ intermediate_steps' =
                          Append(intermediate_steps,
                                 << agent_action, ScratchpadObservation(observation_str) >>)
                   /\ progress' = events
                   /\ UNCHANGED << result, pc >>
    /\ llm_output' = out
    /\ i' = i + 1
    /\ llm_calls' = llm_calls + 1
    /\ dispatches' = dispatches + 1
    /\ UNCHANGED << job_status, current_doc_path, current_output_doc_path,
                    error_msg, fn_in, fn_out, jobVars >>

\* lines 319-322: the loop ran max_iterations times without returning
RunMaxIterations ==
    /\ pc = "iterating" /\ i = max_iterations
    /\ result' = Return("Agent reached maximum iterations.", <<>>)
    /\ progress' = progress \o <<Event("lifecycle", "agent_run_max_iterations", <<>>)>>
    /\ pc' = "returned"
    /\ UNCHANGED << job_status, i, intermediate_steps, full_original_analysis_json,
                    current_formatting_plan_json, full_modified_analysis_json,
                    current_doc_path, current_output_doc_path, llm_output, error_msg,
                    llm_calls, dispatches, tool_calls, fn_in, fn_out, jobVars >>

----------------------------------------------------------------------------
(* The job: process_document_endpoint and process_document_agent_task.    *)

InputDocPath == "original.docx"
OutputDocPath == "formatted/original_formatted.docx"
OtherDocPath == "elsewhere.docx"

\* process_document_endpoint: a job in state uploaded is queued and its task scheduled
ProcessRequest ==
    /\ job_status = "uploaded"
    /\ job_status' = "queued"
    /\ UNCHANGED << pc, i, intermediate_steps, full_original_analysis_json,
                    current_formatting_plan_json, full_modified_analysis_json,
                    current_doc_path, current_output_doc_path, llm_output, error_msg,
                    result, progress, llm_calls, dispatches, tool_calls, fn_in, fn_out, jobVars >>

\* process_document_agent_task, lines 33-51: the queued job starts processing
TaskBegin ==
    /\ job_status = "queued" /\ pc = "idle"
    /\ job_status' = "processing"
    /\ pc' = "task"
    /\ UNCHANGED << i, intermediate_steps, full_original_analysis_json,
                    current_formatting_plan_json, full_modified_analysis_json,
                    current_doc_path, current_output_doc_path, llm_output, error_msg,
                    result, progress, llm_calls, dispatches, tool_calls, fn_in, fn_out, jobVars >>

\* what a source of the key holds: no value, an empty value, one of the
\* placeholder keys, a key
KeyStates == {"unset", "empty", "dummy", "real"}

\* config.py get_groq_api_key, lines 52-94: the key of the .env file if it
\* is a real one, else that of the environment if it is a real one, else
\* whatever the .env file holds, else whatever the environment holds; with
\* nothing in either, ValueError
KeyValue(state) ==
    IF state = "empty" THEN Str(<<>>)
    ELSE IF state = "dummy" THEN Str(<<"DUMMY_KEY_PROJECT_ROOT">>)
    ELSE Str(<<"gsk_key">>)

GetGroqApiKey(dotenv, os_env) ==
    IF dotenv = "real" THEN KeyValue(dotenv)
    ELSE IF os_env = "real" THEN KeyValue(os_env)
    ELSE IF dotenv # "unset" THEN KeyValue(dotenv)
    ELSE IF os_env \in {"unset", "empty"} THEN Raise("ValueError", "GROQ_API_KEY is not set")
    ELSE KeyValue(os_env)

\* where the key can come from, and whether ChatGroq(...) constructs the
\* client or raises
SetupEnvs ==
    { [dotenv |-> d, os_env |-> o, llm_constructs |-> c] :
          d \in KeyStates, o \in KeyStates, c \in BOOLEAN }

\* DocumentFormattingAgent.__init__, lines 22-40: the key is fetched (an
\* exception of get_groq_api_key leaves the constructor), an empty or
\* placeholder key only gives a warning, and an exception of ChatGroq
\* becomes a ValueError
AgentInit(env) ==
    LET api_key == GetGroqApiKey(env.dotenv, env.os_env)
        start == <<Event("lifecycle", "agent_init_start", <<>>)>>
        warning == IF ~Raised(api_key) /\ api_key # KeyValue("real")
                   THEN <<Event("warning", "API key is dummy, placeholder, or missing", api_key.w)>>
                   ELSE <<>>
    IN  IF Raised(api_key)
        THEN [raised |-> TRUE, exc |-> api_key.exc, events |-> start]
        ELSE IF ~env.llm_constructs
        THEN [raised |-> TRUE, exc |-> "ValueError",
              events |-> start \o warning \o
                  <<Event("error", "Fatal: Failed to initialize core LLM", <<>>)>>]
        ELSE [raised |-> FALSE, exc |-> "",
              events |-> start \o warning \o
                  <<Event("info", "Core LLM initialized", <<>>)>>]

\* lines 67-84 and run() up to line 254: the agent is constructed and run starts
RunStart ==
    /\ pc = "task"
    /\ \E env \in SetupEnvs :
           /\ ~AgentInit(env).raised
           /\ progress' = AgentInit(env).events \o
                  <<Event("lifecycle", "agent_run_start", <<>>)>>
    /\ current_doc_path' = InputDocPath
    /\ current_output_doc_path' = OutputDocPath
    /\ full_original_analysis_json' = None
    /\ current_formatting_plan_json' = None
    /\ full_modified_analysis_json' = None
    /\ intermediate_steps' = <<>>
    /\ i' = 0
    /\ pc' = "iterating"
    /\ UNCHANGED << job_status, llm_output, error_msg, result,
                    llm_calls, dispatches, tool_calls, fn_in, fn_out, jobVars >>

\* line 67 raises (config.py line 93 or agent.py line 40): the task's
\* handler of lines 140-155
AgentSetupFails ==
    /\ pc = "task"
    /\ \E env \in SetupEnvs :
           /\ AgentInit(env).raised
           /\ progress' = AgentInit(env).events
    /\ job_status' = "error"
    /\ pc' = "done"
    /\ UNCHANGED << i, intermediate_steps, full_original_analysis_json,
                    current_formatting_plan_json, full_modified_analysis_json,
                    current_doc_path, current_output_doc_path, llm_output, error_msg,
                    result, llm_calls, dispatches, tool_calls, fn_in, fn_out, jobVars >>

\* a task whose handler of lines 140-155 records no status
JobStatusAfterRunUnhandled(assembled) == IF assembled THEN "completed" ELSE "processing"

\* the status the task records after run returned: completed (line 127) if
\* the result was assembled, error (line 144) if lines 86-125 raised
JobStatusAfterRun(assembled) == IF assembled THEN "completed" ELSE "error"

\* lines 86-138: run returned and the result is assembled and the job
\* completed, or the assembly raises (a final answer or a summary that
\* FinalProcessingResultData does not accept) and lines 140-155 record the error
TaskComplete ==
    /\ pc = "returned"
    /\ \E assembled \in BOOLEAN : job_status' = JobStatusAfterRun(assembled)
    /\ pc' = "done"
    /\ UNCHANGED << i, intermediate_steps, full_original_analysis_json,
                    current_formatting_plan_json, full_modified_analysis_json,
                    current_doc_path, current_output_doc_path, llm_output, error_msg,
                    result, progress, llm_calls, dispatches, tool_calls, fn_in, fn_out, jobVars >>

\* lines 140-155: run raised
TaskFail ==
    /\ pc = "raised"
    /\ job_status' = "error"
    /\ pc' = "done"
    /\ UNCHANGED << i, intermediate_steps, full_original_analysis_json,
                    current_formatting_plan_json, full_modified_analysis_json,
                    current_doc_path, current_output_doc_path, llm_output, error_msg,
                    result, progress, llm_calls, dispatches, tool_calls, fn_in, fn_out, jobVars >>

----------------------------------------------------------------------------
(* What the reasoning engine and the tools can do.                         *)

\* the number of leading iterations in which the engine's Action and the
\* tool's outcome range over every case below; later iterations take one
\* Action that continues the loop, or any response that ends the run
MaxVariedIterations == 2

Dict(items) == [t |-> "dict", w |-> <<"{...}">>, items |-> items]
Item(k, v) == [k |-> k, v |-> v]

\* a tool's JSON object output: document_path (NoKey if absent), whether it
\* has an "error" key, its length in characters
JsonObject(path, err, len) ==
    [t |-> "str", w |-> <<"{...}">>, path |-> path, err |-> err, len |-> len]

JsonList(len) == [t |-> "str", w |-> <<"[...]">>, path |-> NoKey, err |-> FALSE, len |-> len]

PlainText(len) == [t |-> "str", w |-> <<"text">>, path |-> NoKey, err |-> FALSE, len |-> len]

FinishAnswers == { <<Seg("x", 2)>> }

EngineTexts ==
    { <<Seg("x", 3)>>,
      <<Seg("x", MAX_LAST_OUTPUT_LEN)>>,
      <<Seg("x", MAX_LAST_OUTPUT_LEN + 1)>>,
      <<Seg("x", 1), Seg(FinalAnswerMarker, 1), Seg(" ", 1), Seg("y", 2), Seg(" ", 2)>>,
      <<Seg(FinalAnswerMarker, 1), Seg("x", 1), Seg(FinalAnswerMarker, 1), Seg("y", 1)>>,
      <<Seg("x", 1), Seg(FinalAnswerMarker, 1)>> }

FinishOutputs ==
    { [shape |-> "AgentFinish", has_output |-> TRUE, output |-> a] : a \in FinishAnswers }
    \cup { [shape |-> "AgentFinish", has_output |-> FALSE, output |-> <<>>] }

OtherOutputs ==
    { [shape |-> "Other", text |-> s, has_log |-> b, log |-> <<Seg("l", 4)>>] :
          s \in EngineTexts, b \in BOOLEAN }

Action(tool, tool_input) == [shape |-> "AgentAction", tool |-> tool, tool_input |-> tool_input]

RunToolNames == {"analyze_document_structure", "create_formatting_plan", "nonexistent_tool"}

RunToolInputs ==
    { Dict(<<Item("doc_path", Str(<<InputDocPath>>))>>),
      Dict(<<Item("user_goal", Str(<<"goal">>)),
             Item("document_analysis_json", PLACEHOLDER_ORIGINAL_ANALYSIS)>>),
      Str(<<InputDocPath>>),
      Str(<<DQ, InputDocPath, DQ>>),
      [t |-> "int"] }

RunOutcomes ==
    { [kind |-> "returns", obs |-> JsonObject(InputDocPath, FALSE, 1200)],
      [kind |-> "returns", obs |-> JsonList(MAX_OBS_LEN_SCRATCHPAD)],
      [kind |-> "returns", obs |-> JsonList(MAX_OBS_LEN_SCRATCHPAD + 1)],
      [kind |-> "returns", obs |-> JsonObject(NoKey, TRUE, 90)],
      [kind |-> "throws"] }

\* the Action of a later iteration that continues the loop, and its outcome
LateAction == Action("validate_formatting_result", Dict(<<Item("user_goal", Str(<<"goal">>))>>))
LateOutcome == [kind |-> "returns", obs |-> PlainText(40)]

FinishChoices ==
    IF i < MaxVariedIterations THEN FinishOutputs
    ELSE { [shape |-> "AgentFinish", has_output |-> TRUE, output |-> <<Seg("x", 2)>>] }

OtherChoices ==
    IF i < MaxVariedIterations THEN OtherOutputs
    ELSE { [shape |-> "Other", text |-> <<Seg("x", 3)>>, has_log |-> FALSE,
            log |-> <<Seg("l", 4)>>] }

ActionChoices ==
    IF i < MaxVariedIterations
    THEN { <<Action(n, a), o>> : n \in RunToolNames, a \in RunToolInputs, o \in RunOutcomes }
    ELSE { <<LateAction, LateOutcome>>,
           <<Action("analyze_document_structure", Str(<<DQ, InputDocPath, DQ>>)), LateOutcome>> }

----------------------------------------------------------------------------
(* The tools' handling of a document that cannot be loaded or saved        *)
(* (core/tools.py, utils/document_utils.py).                               *)

\* analyze_document_structure, lines 43-58, on a document path: load_document
\* re-raises what Document() raises (document_utils.py 8-15) and the tool's
\* except clause turns it into a JSON object with an "error" key
AnalyzeDocumentStructure(doc_path_str, loads) ==
    IF loads THEN JsonObject(doc_path_str, FALSE, 1200)
    ELSE JsonObject(NoKey, TRUE, 90)

\* apply_contextual_formatting, lines 284-325: a failure of load_document or
\* of save_document is caught at line 324 and returned as a JSON object
\* with an "error" key
ApplyContextualFormatting(loads, saves) ==
    IF loads /\ saves THEN JsonObject(NoKey, FALSE, 120)
    ELSE JsonObject(NoKey, TRUE, 90)

----------------------------------------------------------------------------
(* The job and its run *)

EmptyIn == [t |-> "none"]

\* the job ids of the uploads the server is given
JobIds == {"job1", "job2"}

\* job_id not in jobs_db
NoJob ==
    [status |-> "absent", user_goal |-> None, output_file_path |-> NoPath,
     current_step_details |-> "", final_result_data |-> None,
     error_details_for_log |-> None]

\* no task added for the job: pending counts the tasks added and not yet
\* begun, pc is the position of the task that has begun, runs counts the
\* calls of agent.run
NoTask == [pending |-> 0, pc |-> "none", runs |-> 0]

NoResponse == [op |-> "none", job |-> "", code |-> 0]
Response(op, job, code) == [op |-> op, job |-> job, code |-> code]

\* no agent constructed for the job
NoAgent ==
    [pc |-> "none", i |-> 0,
     full_original_analysis_json |-> None,
     current_formatting_plan_json |-> None,
     full_modified_analysis_json |-> None,
     current_doc_path |-> NoPath,
     current_output_doc_path |-> NoPath,
     tool_input |-> None]

\* no job in the table, no task, no agent: the server after start-up
\* the websockets the server is connected to, and the broadcasts made
Sockets == {"ws1", "ws2", "ws3"}
MaxBroadcasts == 2
Broadcasts == 1..MaxBroadcasts

NoSocket == [job |-> "", pc |-> "new"]
NoBroadcast == [job |-> "", pending |-> {}, started |-> FALSE]

\* ConnectionManager.__init__: no connection
SocketsIdle ==
    /\ active_connections = [job_id \in JobIds |-> <<>>]
    /\ sockets = [websocket \in Sockets |-> NoSocket]
    /\ broadcasts = [b \in Broadcasts |-> NoBroadcast]
    /\ delivered = {}

JobsIdle ==
    /\ SocketsIdle
    /\ jobs_db = [job_id \in JobIds |-> NoJob]
    /\ tasks = [job_id \in JobIds |-> NoTask]
    /\ response = NoResponse
    /\ agents = [job_id \in JobIds |-> NoAgent]

InitRun ==
    /\ job_status = "uploaded"
    /\ pc = "idle"
    /\ i = 0
    /\ intermediate_steps = <<>>
    /\ full_original_analysis_json = None
    /\ current_formatting_plan_json = None
    /\ full_modified_analysis_json = None
    /\ current_doc_path = NoPath
    /\ current_output_doc_path = NoPath
    /\ llm_output = NoOutput
    /\ error_msg = Unbound
    /\ result = NoResult
    /\ progress = <<>>
    /\ llm_calls = 0
    /\ dispatches = 0
    /\ tool_calls = 0
    /\ callback_raised = FALSE

Init ==
    /\ InitRun
    /\ JobsIdle
    /\ fn_in = EmptyIn
    /\ fn_out = EmptyIn

\* an exception of the callback that leaves _emit_progress
EmitProgressUnguarded(raises) == IF raises THEN "raised" ELSE "delivered"

\* _emit_progress, lines 129-133: the callback is called inside try, and an
\* exception it raises is printed and goes no further
EmitProgress(raises) == IF raises THEN "swallowed" ELSE "delivered"

\* whether progress_callback_for_job raises during a step (a message that
\* fails validation, a broadcast that fails); _emit_progress handles each
\* call alone, so which of the step's events it raises on makes no difference
CallbackChoices == IF i < MaxVariedIterations THEN BOOLEAN ELSE {FALSE}

\* a step of the agent that emits progress events: were an exception to
\* leave _emit_progress, the step would stop there and run() would raise
Emitting(step) ==
    \E raises \in CallbackChoices :
        IF EmitProgress(raises) = "raised"
        THEN /\ pc' = "raised"
             /\ result' = RaiseOut("CallbackError")
             /\ callback_raised' = TRUE
             /\ UNCHANGED << job_status, i, intermediate_steps,
                             full_original_analysis_json, current_formatting_plan_json,
                             full_modified_analysis_json, current_doc_path,
                             current_output_doc_path, llm_output, error_msg, progress,
                             llm_calls, dispatches, tool_calls, fn_in, fn_out, jobVars >>
        ELSE step /\ callback_raised' = raises

\* a step of the task that calls the manager itself, not the callback
Quiet(step) == step /\ UNCHANGED callback_raised

Next ==
    \/ Quiet(ProcessRequest)
    \/ Quiet(TaskBegin)
    \/ Emitting(RunStart)
    \/ Emitting(AgentSetupFails)
    \/ \E out \in FinishChoices : Emitting(IterFinish(out))
    \/ \E out \in OtherChoices : Emitting(IterOther(out))
    \/ Emitting(IterEngineThrows)
    \/ \E c \in ActionChoices : Emitting(IterAction(c[1], c[2]))
    \/ Emitting(RunMaxIterations)
    \/ Quiet(TaskComplete)
    \/ Quiet(TaskFail)

Spec == Init /\ [][Next]_vars

\* the steps of the background task: all but the request that queues the job
TaskSteps ==
    \/ Quiet(TaskBegin)
    \/ Emitting(RunStart)
    \/ Emitting(AgentSetupFails)
    \/ \E out \in FinishChoices : Emitting(IterFinish(out))
    \/ \E out \in OtherChoices : Emitting(IterOther(out))
    \/ Emitting(IterEngineThrows)
    \/ \E c \in ActionChoices : Emitting(IterAction(c[1], c[2]))
    \/ Emitting(RunMaxIterations)
    \/ Quiet(TaskComplete)
    \/ Quiet(TaskFail)

\* The task added by process_document_endpoint is run by the server, and a
\* task that runs takes its next step: every call of the engine and of a
\* tool returns or throws.
SpecLive == Init /\ [][Next]_vars /\ WF_vars(TaskSteps)

----------------------------------------------------------------------------
(* The job table: the endpoints of api/endpoints.py and the background    *)
(* task of each job.  agent.run is one call here whose result is any of   *)
(* the results of a run.                                                   *)

OutputFilePath(job_id) == << "temp_uploads", job_id, "formatted", "original_formatted.docx" >>

\* lines 185-194
UploadedJob ==
    [status |-> "uploaded", user_goal |-> None, output_file_path |-> NoPath,
     current_step_details |-> "File uploaded successfully. Ready for processing.",
     final_result_data |-> None, error_details_for_log |-> None]

\* a process request that takes a finished job again
ProcessAcceptsFinished(job_info) == job_info.status \in {"uploaded", "completed", "error"}

\* a process request that takes a job already under way again
ProcessAcceptsStarted(job_info) == job_info.status \in {"uploaded", "queued", "processing"}

\* line 209: the state a process request requires
ProcessAccepts(job_info) == job_info.status = "uploaded"

\* upload_document: a .docx file gets a fresh job id and a record in state
\* uploaded; any other file is refused
UploadDocument(job_id, is_docx) ==
    /\ jobs_db[job_id] = NoJob
    /\ IF is_docx
       THEN /\ jobs_db' = [jobs_db EXCEPT ![job_id] = UploadedJob]
            /\ response' = Response("upload", job_id, 200)
       ELSE /\ response' = Response("upload", "", 400)
            /\ UNCHANGED jobs_db
    /\ UNCHANGED << runVars, fnVars, wsVars, tasks, agents >>

\* process_document_endpoint
ProcessDocument(job_id) ==
    /\ IF jobs_db[job_id] = NoJob
       THEN /\ response' = Response("process", job_id, 404)
            /\ UNCHANGED << jobs_db, tasks >>
       ELSE IF ~ProcessAccepts(jobs_db[job_id])
       THEN /\ response' = Response("process", job_id, 400)
            /\ UNCHANGED << jobs_db, tasks >>
       ELSE /\ jobs_db' = [jobs_db EXCEPT ![job_id] =
                   [@ EXCEPT !.user_goal = Str(<<"goal">>),
                             !.status = "queued",
                             !.current_step_details = "Queued for processing.",
                             !.final_result_data = None,
                             !.error_details_for_log = None]]
            /\ tasks' = [tasks EXCEPT ![job_id].pending = @ + 1]
            /\ response' = Response("process", job_id, 202)
    /\ UNCHANGED << runVars, fnVars, wsVars, agents >>

\* get_job_status: reads the record
GetJobStatus(job_id) ==
    /\ response' = Response("status", job_id, IF jobs_db[job_id] = NoJob THEN 404 ELSE 200)
    /\ UNCHANGED << runVars, fnVars, wsVars, jobs_db, tasks, agents >>

\* download_formatted_document: reads the record and the output file
DownloadFormatted(job_id, file_exists) ==
    /\ response' = Response("download", job_id,
           IF jobs_db[job_id] = NoJob THEN 404
           ELSE IF jobs_db[job_id].status # "completed" THEN 400
           ELSE IF jobs_db[job_id].output_file_path = NoPath \/ ~file_exists THEN 404
           ELSE 200)
    /\ UNCHANGED << runVars, fnVars, wsVars, jobs_db, tasks, agents >>

\* download_original_document: reads the record
DownloadOriginal(job_id, file_exists) ==
    /\ response' = Response("original", job_id,
           IF jobs_db[job_id] = NoJob \/ ~file_exists THEN 404 ELSE 200)
    /\ UNCHANGED << runVars, fnVars, wsVars, jobs_db, tasks, agents >>

\* lines 140-153: the record after the task's handler of an exception
FailedJob(job_info) ==
    [job_info EXCEPT !.status = "error",
                     !.current_step_details = "Agent processing error",
                     !.final_result_data = [t |-> "dict", agent_final_answer |-> "Error"],
                     !.error_details_for_log = Str(<<"traceback">>)]

\* process_document_agent_task, lines 33-51: a task that was added begins
TaskStart(job_id) ==
    /\ tasks[job_id].pending > 0 /\ tasks[job_id].pc = "none"
    /\ IF jobs_db[job_id] = NoJob
       THEN /\ tasks' = [tasks EXCEPT ![job_id].pending = @ - 1]
            /\ UNCHANGED jobs_db
       ELSE IF jobs_db[job_id].status # "queued"
       THEN /\ jobs_db' = [jobs_db EXCEPT ![job_id] =
                   [@ EXCEPT !.status = "error",
                             !.current_step_details = "not in 'queued' state",
                             !.final_result_data = [t |-> "dict", agent_final_answer |-> "Error"]]]
            /\ tasks' = [tasks EXCEPT ![job_id].pending = @ - 1]
       ELSE /\ jobs_db' = [jobs_db EXCEPT ![job_id] =
                   [@ EXCEPT !.status = "processing",
                             !.current_step_details = "Initializing agent..."]]
            /\ tasks' = [tasks EXCEPT ![job_id] = [@ EXCEPT !.pending = @ - 1, !.pc = "started"]]
    /\ UNCHANGED << runVars, fnVars, wsVars, response, agents >>

\* lines 67-84: the agent is constructed, the output path recorded, run called
TaskCallRun(job_id) ==
    /\ tasks[job_id].pc = "started"
    /\ jobs_db' = [jobs_db EXCEPT ![job_id].output_file_path = OutputFilePath(job_id)]
    /\ tasks' = [tasks EXCEPT ![job_id] = [@ EXCEPT !.pc = "running", !.runs = @ + 1]]
    /\ UNCHANGED << runVars, fnVars, wsVars, response, agents >>

\* line 67 raises: the handler of lines 140-155
TaskSetupFails(job_id) ==
    /\ tasks[job_id].pc = "started"
    /\ jobs_db' = [jobs_db EXCEPT ![job_id] = FailedJob(@)]
    /\ tasks' = [tasks EXCEPT ![job_id].pc = "none"]
    /\ UNCHANGED << runVars, fnVars, wsVars, response, agents >>

\* what agent.run can do: return a string or raise
AgentRunResults ==
    { Return("", <<Seg("x", 2)>>),
      Return("Agent stopped: Reached maximum iterations.", <<>>),
      RaiseOut("UnboundLocalError"),
      RaiseOut("ValueError") }

\* agent.run is over: lines 86-138 if it returned, lines 140-155 if it raised
TaskRunEnds(job_id, run_result) ==
    /\ tasks[job_id].pc = "running"
    /\ IF run_result.kind = "return"
       THEN jobs_db' = [jobs_db EXCEPT ![job_id] =
                [@ EXCEPT !.status = "completed",
                          !.current_step_details = "Processing complete.",
                          !.final_result_data =
                              [t |-> "dict", agent_final_answer |-> run_result.prefix]]]
       ELSE jobs_db' = [jobs_db EXCEPT ![job_id] = FailedJob(@)]
    /\ tasks' = [tasks EXCEPT ![job_id].pc = "none"]
    /\ UNCHANGED << runVars, fnVars, wsVars, response, agents >>

NextJobs ==
    \/ \E job_id \in JobIds, is_docx \in BOOLEAN : UploadDocument(job_id, is_docx)
    \/ \E job_id \in JobIds : ProcessDocument(job_id)
    \/ \E job_id \in JobIds : GetJobStatus(job_id)
    \/ \E job_id \in JobIds, file_exists \in BOOLEAN : DownloadFormatted(job_id, file_exists)
    \/ \E job_id \in JobIds, file_exists \in BOOLEAN : DownloadOriginal(job_id, file_exists)
    \/ \E job_id \in JobIds : TaskStart(job_id)
    \/ \E job_id \in JobIds : TaskCallRun(job_id)
    \/ \E job_id \in JobIds : TaskSetupFails(job_id)
    \/ \E job_id \in JobIds, run_result \in AgentRunResults : TaskRunEnds(job_id, run_result)

SpecJobs == Init /\ [][NextJobs]_vars

----------------------------------------------------------------------------
(* Concurrent runs: each task constructs its own agent (endpoints.py line  *)
(* 67) and runs it on its job's document; the tasks run in threads of the  *)
(* server's pool, so their loop iterations interleave.                     *)

\* original_file_path and output_doc_path of a job (endpoints.py 174, 71-76)
JobDocPath(job_id) ==
    IF job_id = "job1" THEN "temp_uploads/job1/original.docx"
    ELSE "temp_uploads/job2/original.docx"
JobOutputDocPath(job_id) ==
    IF job_id = "job1" THEN "temp_uploads/job1/formatted/original_formatted.docx"
    ELSE "temp_uploads/job2/formatted/original_formatted.docx"

\* __init__, lines 116-121: the agent as constructed
NewAgent ==
    [pc |-> "constructed", i |-> 0,
     full_original_analysis_json |-> None,
     current_formatting_plan_json |-> None,
     full_modified_analysis_json |-> None,
     current_doc_path |-> NoPath,
     current_output_doc_path |-> NoPath,
     tool_input |-> None]

\* one agent object that every task would use
AgentOfShared(job_id) == agents["job1"]

\* the local variable agent of the job's task
AgentOf(job_id) == agents[job_id]

\* a tool's output, with the job whose tool call produced it
ProducedIn(job_id, observation) ==
    [t |-> observation.t, w |-> observation.w, path |-> observation.path,
     err |-> observation.err, len |-> observation.len, by |-> job_id]

\* the Actions the engine of a job chooses among, each with what the tool
\* does: the analysis of a document carries the path that was asked for
ConcurrentChoices(job_id) ==
    { <<Action("analyze_document_structure", Str(<<p>>)),
        [kind |-> "returns", obs |-> ProducedIn(job_id, JsonObject(p, FALSE, 1200))]>> :
          p \in {JobDocPath(job_id), JobOutputDocPath(job_id)}
                \cup {JobDocPath(other) : other \in JobIds \ {job_id}} }
    \cup
    { <<Action("create_formatting_plan",
               Dict(<<Item("user_goal", Str(<<"goal">>)),
                      Item("document_analysis_json", PLACEHOLDER_ORIGINAL_ANALYSIS)>>)),
        [kind |-> "returns", obs |-> ProducedIn(job_id, JsonList(300))]>>,
      <<Action("apply_contextual_formatting",
               Dict(<<Item("formatting_plan_json", PLACEHOLDER_FORMATTING_PLAN),
                      Item("document_analysis_json", PLACEHOLDER_ORIGINAL_ANALYSIS)>>)),
        [kind |-> "returns", obs |-> ProducedIn(job_id, JsonObject(NoKey, FALSE, 120))]>>,
      <<Action("validate_formatting_result",
               Dict(<<Item("original_doc_analysis_json", PLACEHOLDER_ORIGINAL_ANALYSIS),
                      Item("modified_doc_analysis_json", PLACEHOLDER_MODIFIED_ANALYSIS)>>)),
        [kind |-> "returns", obs |-> ProducedIn(job_id, PlainText(40))]>> }

\* endpoints.py line 67: the task of a job constructs its agent
AgentConstruct(job_id) ==
    /\ agents[job_id] = NoAgent
    /\ agents' = [agents EXCEPT ![job_id] = NewAgent]
    /\ UNCHANGED << runVars, fnVars, wsVars, jobs_db, tasks, response >>

\* run(), lines 229-254: the paths are set and the three slots emptied
AgentRunStart(job_id) ==
    /\ agents[job_id].pc = "constructed"
    /\ agents' = [agents EXCEPT ![job_id] =
           [@ EXCEPT !.pc = "iterating",
                     !.current_doc_path = JobDocPath(job_id),
                     !.current_output_doc_path = JobOutputDocPath(job_id),
                     !.full_original_analysis_json = None,
                     !.current_formatting_plan_json = None,
                     !.full_modified_analysis_json = None]]
    /\ UNCHANGED << runVars, fnVars, wsVars, jobs_db, tasks, response >>

\* one iteration of run() whose engine output is an AgentAction: the tool
\* is dispatched on the task's agent; an exception of the dispatcher ends
\* the run (lines 312-317)
AgentIterate(job_id, out, outcome) ==
    /\ agents[job_id].pc = "iterating" /\ agents[job_id].i < max_iterations
    /\ LET done == ExecuteTool(out.tool, out.tool_input, AgentOf(job_id), outcome)
       IN  IF Raised(done.ret)
           THEN agents' = [agents EXCEPT ![job_id] =
                    [@ EXCEPT !.pc = "raised", !.i = @ + 1, !.tool_input = None]]
           ELSE agents' = [agents EXCEPT ![job_id] =
                    [done.self EXCEPT !.pc = "iterating", !.i = agents[job_id].i + 1,
                                      !.current_doc_path = JobDocPath(job_id),
                                      !.current_output_doc_path = JobOutputDocPath(job_id),
                                      !.tool_input = done.arg]]
    /\ UNCHANGED << runVars, fnVars, wsVars, jobs_db, tasks, response >>

\* the run ends: an AgentFinish or another output (lines 273-293), an
\* exception of the engine (312-317), or the end of the loop (319-322)
AgentRunEnds(job_id, how) ==
    /\ agents[job_id].pc = "iterating"
    /\ IF agents[job_id].i < max_iterations
       THEN agents' = [agents EXCEPT ![job_id] =
                [@ EXCEPT !.pc = how, !.i = @ + 1, !.tool_input = None]]
       ELSE /\ how = "returned"
            /\ agents' = [agents EXCEPT ![job_id] =
                   [@ EXCEPT !.pc = "returned", !.tool_input = None]]
    /\ UNCHANGED << runVars, fnVars, wsVars, jobs_db, tasks, response >>

NextConcurrent ==
    \/ \E job_id \in JobIds : AgentConstruct(job_id)
    \/ \E job_id \in JobIds : AgentRunStart(job_id)
    \/ \E job_id \in JobIds : \E c \in ConcurrentChoices(job_id) :
           AgentIterate(job_id, c[1], c[2])
    \/ \E job_id \in JobIds, how \in {"returned", "raised"} : AgentRunEnds(job_id, how)

\* both jobs were queued and their tasks have begun (lines 33-51)
InitConcurrent ==
    /\ InitRun
    /\ fn_in = EmptyIn
    /\ fn_out = EmptyIn
    /\ jobs_db = [job_id \in JobIds |->
                     [UploadedJob EXCEPT !.status = "processing",
                                         !.user_goal = Str(<<"goal">>),
                                         !.current_step_details = "Initializing agent..."]]
    /\ tasks = [job_id \in JobIds |-> [pending |-> 0, pc |-> "started", runs |-> 0]]
    /\ response = NoResponse
    /\ agents = [job_id \in JobIds |-> NoAgent]
    /\ SocketsIdle

SpecConcurrent == InitConcurrent /\ [][NextConcurrent]_vars

----------------------------------------------------------------------------
(* _substitute_placeholders and _execute_tool as functions: every input   *)
(* of a bounded set, applied once.                                         *)

\* the largest number of items of an action_input
MaxArgs == 2

ArgNames == << "doc_path", "formatting_plan_json", "document_analysis_json",
               "output_doc_path", "user_goal" >>

\* values an item can hold: the three tokens, a plain str, a str that only
\* contains a token, a list whose element is a token
ArgValues ==
    { PLACEHOLDER_ORIGINAL_ANALYSIS, PLACEHOLDER_MODIFIED_ANALYSIS,
      PLACEHOLDER_FORMATTING_PLAN,
      Str(<<InputDocPath>>),
      Str(<<"see", "$CURRENT_FORMATTING_PLAN">>),
      [t |-> "list", w |-> <<"$FULL_ORIGINAL_ANALYSIS">>] }

ItemsOfLen(n) ==
    { [m \in 1..n |-> Item(ArgNames[m], vs[m])] : vs \in [1..n -> ArgValues] }

ArgItems == UNION { ItemsOfLen(n) : n \in 0..MaxArgs }

\* the agents _execute_tool can be called on: each slot is None or holds
\* what an earlier dispatch of the run stored in it
Selves ==
    { [full_original_analysis_json |-> o,
       current_formatting_plan_json |-> p,
       full_modified_analysis_json |-> m,
       current_doc_path |-> InputDocPath,
       current_output_doc_path |-> OutputDocPath] :
         o \in {None, JsonObject(InputDocPath, FALSE, 1200)},
         p \in {None, JsonList(300)},
         m \in {None, JsonObject(OutputDocPath, FALSE, 1300)} }

SubstInputs == { [action_input |-> Dict(items), self |-> s] : items \in ArgItems, s \in Selves }

InitSubst ==
    /\ InitRun
    /\ JobsIdle
    /\ fn_in \in SubstInputs
    /\ fn_out = EmptyIn

ApplySubstitute ==
    /\ fn_out = EmptyIn
    /\ fn_out' = SubstitutePlaceholders(fn_in.action_input, fn_in.self)
    /\ UNCHANGED << runVars, fn_in, jobVars >>

NextSubst == ApplySubstitute

SpecSubst == InitSubst /\ [][NextSubst]_vars

DispatchToolNames == ToolNameSet \cup {"nonexistent_tool"}

\* Action Inputs of every shape: a dict, a str that is a JSON object, a str
\* that is JSON but no object, a str that is not JSON, another type
DispatchToolInputs ==
    { Dict(<<Item("doc_path", Str(<<InputDocPath>>))>>),
      Dict(<<Item("doc_path", Str(<<InputDocPath>>)),
             Item("document_analysis_json", PLACEHOLDER_ORIGINAL_ANALYSIS)>>),
      Dict(<<Item("formatting_plan_json", PLACEHOLDER_FORMATTING_PLAN),
             Item("modified_doc_analysis_json", PLACEHOLDER_MODIFIED_ANALYSIS)>>),
      [t |-> "str", w |-> <<"{...}">>,
       items |-> <<Item("doc_path", Str(<<InputDocPath>>))>>],
      [t |-> "str", w |-> <<"{...}">>,
       items |-> <<Item("formatting_plan_json", PLACEHOLDER_FORMATTING_PLAN)>>],
      Str(<<DQ, InputDocPath, DQ>>),
      Str(<<"7">>),
      Str(<<"null">>),
      Str(<<"[...]">>),
      Str(<<InputDocPath>>),
      Str(<<SQ, InputDocPath, SQ>>),
      Str(<<DQ, InputDocPath>>),
      Str(<<>>),
      [t |-> "int"],
      None,
      [t |-> "list"] }

DispatchOutcomes ==
    { [kind |-> "returns", obs |-> JsonObject(InputDocPath, FALSE, 1200)],
      [kind |-> "returns", obs |-> JsonObject(OutputDocPath, FALSE, 1300)],
      [kind |-> "returns", obs |-> JsonObject(OtherDocPath, FALSE, 900)],
      [kind |-> "returns", obs |-> JsonObject(NoKey, TRUE, 90)],
      [kind |-> "returns", obs |-> JsonList(300)],
      [kind |-> "returns", obs |-> PlainText(40)],
      [kind |-> "returns", obs |-> [JsonObject(InputDocPath, FALSE, 1200) EXCEPT !.t = "dict"]],
      [kind |-> "throws"] }

DispatchInputs ==
    { [tool_name |-> n, tool_input |-> a, self |-> s, outcome |-> o] :
          n \in DispatchToolNames, a \in DispatchToolInputs, s \in Selves,
          o \in DispatchOutcomes }

InitDispatch ==
    /\ InitRun
    /\ JobsIdle
    /\ fn_in \in DispatchInputs
    /\ fn_out = EmptyIn

ApplyExecuteTool ==
    /\ fn_out = EmptyIn
    /\ fn_out' = ExecuteTool(fn_in.tool_name, fn_in.tool_input, fn_in.self, fn_in.outcome)
    /\ UNCHANGED << runVars, fn_in, jobVars >>

NextDispatch == ApplyExecuteTool

SpecDispatch == InitDispatch /\ [][NextDispatch]_vars

----------------------------------------------------------------------------
(* The claims.  RunEnded: run() has returned or raised.  AllActions: every *)
(* response of the engine so far was an AgentAction.                       *)

RunEnded == result.kind # "none"

AllActions == llm_calls = dispatches

MaxIterationsResult == Return("Agent reached maximum iterations.", <<>>)

UnexpectedOutputPrefix == "Agent error: Unexpected output type from LLM. Last output: "

\* the step of one iteration on which the engine returned an AgentAction
ActionIteration ==
    /\ pc = "iterating"
    /\ llm_calls' = llm_calls + 1
    /\ llm_output'.shape = "AgentAction"

\* C1: the run makes at most max_iterations = 12 engine invocations and tool
\* dispatches, and a run in which no response was a Finish (every response an
\* Action) ends after exactly 12 iterations by returning the
\* "maximum iterations" result, not by an exception.
C1_CapEndsRun ==
    /\ i <= max_iterations /\ llm_calls <= max_iterations /\ dispatches <= max_iterations
    /\ (RunEnded /\ AllActions) =>
           /\ i = max_iterations
           /\ result = MaxIterationsResult

\* C2: run() never raises, whatever the engine and the tools do.
C2_RunNeverRaises == result.kind # "raise" /\ pc # "raised"

\* the items of an Action argument given as a mapping or as a string that
\* parses to a mapping (none otherwise)
ArgMapping(tool_input) ==
    IF tool_input.t = "dict" \/ (tool_input.t = "str" /\ tool_input.w = <<"{...}">>)
    THEN tool_input.items ELSE <<>>

MissingPlaceholder(tool_input) ==
    \E n \in 1..Len(ArgMapping(tool_input)) :
        LET v == ArgMapping(tool_input)[n].v
        IN  \/ v = PLACEHOLDER_ORIGINAL_ANALYSIS /\ full_original_analysis_json = None
            \/ v = PLACEHOLDER_MODIFIED_ANALYSIS /\ full_modified_analysis_json = None
            \/ v = PLACEHOLDER_FORMATTING_PLAN /\ current_formatting_plan_json = None

\* C3: an Action whose argument names a placeholder with an empty cache slot
\* fails only that iteration: no tool is invoked, the (action, error
\* observation) pair is appended to the history and the loop continues.
C3_MissingPlaceholderIsConfined ==
    [][ (ActionIteration /\ MissingPlaceholder(llm_output'.tool_input)) =>
            /\ tool_calls' = tool_calls
            /\ pc' = "iterating"
            /\ result' = result
            /\ Len(intermediate_steps') = Len(intermediate_steps) + 1
            /\ intermediate_steps'[Len(intermediate_steps')][1] = llm_output' ]_vars

\* C4: _execute_tool returns a string observation and never raises, for every
\* tool name, argument shape and tool outcome; a string argument that is not
\* JSON reaches the tool as one scalar (string) argument.
C4_DispatcherIsTotal ==
    fn_out # EmptyIn =>
        /\ ~Raised(fn_out.ret)
        /\ fn_out.ret.t = "str"
        /\ (fn_in.tool_input.t = "str" /\ Raised(JsonLoads(fn_in.tool_input))
              /\ fn_in.tool_name \in ToolNameSet) =>
               (fn_out.invoked /\ fn_out.arg.t = "str")

ListsToolNames(observation) ==
    "names" \in DOMAIN observation /\ observation.names = tool_names

\* C5: an Action naming an unregistered tool invokes no tool, whatever its
\* argument; its observation lists the valid tool names, the pair is appended
\* to the history and the loop goes on.
C5_UnknownToolIsReported ==
    [][ (ActionIteration /\ llm_output'.tool \notin ToolNameSet) =>
            /\ tool_calls' = tool_calls
            /\ pc' = "iterating"
            /\ Len(intermediate_steps') = Len(intermediate_steps) + 1
            /\ intermediate_steps'[Len(intermediate_steps')][1] = llm_output'
            /\ ListsToolNames(intermediate_steps'[Len(intermediate_steps')][2].of) ]_vars

\* C6: when the engine returns a Finish on iteration k, run returns exactly
\* the Finish's answer text, nothing is dispatched on iteration k (the k-1
\* earlier iterations each dispatched once), and afterwards the engine is not
\* invoked and no tool is dispatched again.
C6_FinishEndsRun ==
    /\ [](llm_output.shape = "AgentFinish" =>
            /\ pc \in {"returned", "done"}
            /\ result.kind = "return" /\ result.prefix = ""
            /\ (llm_output.has_output => result.text = llm_output.output)
            /\ llm_calls = i
            /\ dispatches = i - 1
            /\ Len(intermediate_steps) = i - 1)
    /\ [][llm_output.shape = "AgentFinish" =>
            /\ llm_calls' = llm_calls
            /\ dispatches' = dispatches
            /\ tool_calls' = tool_calls
            /\ result' = result]_vars

\* a Finish on the second iteration, after one dispatched Action, with the job completed
C6_Witness ==
    /\ llm_output.shape = "AgentFinish" /\ llm_output.has_output
    /\ i = 2 /\ dispatches = 1 /\ llm_calls = 2
    /\ result = Return("", llm_output.output)
    /\ job_status = "completed"

\* C7: every iteration on which the engine returns an Action dispatches once
\* and appends exactly one pair to the history, which only grows at its end;
\* while the loop runs the history holds one pair per iteration done.
C7_OnePairPerAction ==
    /\ [](pc = "iterating" => Len(intermediate_steps) = i)
    /\ [][ ActionIteration =>
            /\ dispatches' = dispatches + 1
            /\ Len(intermediate_steps') = Len(intermediate_steps) + 1
            /\ SubSeq(intermediate_steps', 1, Len(intermediate_steps)) = intermediate_steps
            /\ intermediate_steps'[Len(intermediate_steps')][1] = llm_output' ]_vars


\* "Final Answer:" occurs in the text
HasMarker(s) == \E n \in 1..Len(s) : s[n].c = FinalAnswerMarker

\* tail is what follows the last marker of s
IsTailAfterLastMarker(tail, s) ==
    \E k \in 1..Len(s) :
        /\ s[k].c = FinalAnswerMarker
        /\ \A m \in (k + 1)..Len(s) : s[m].c # FinalAnswerMarker
        /\ tail = SubSeq(s, k + 1, Len(s))

\* ans is tail without its leading and trailing whitespace
IsStripped(ans, tail) ==
    LET inner == {m \in 1..Len(tail) : tail[m].c \notin Whitespace}
    IN  IF inner = {} THEN ans = <<>>
        ELSE \E a \in inner, b \in inner :
                /\ \A m \in inner : a <= m /\ m <= b
                /\ ans = SubSeq(tail, a, b)

\* p is the first k characters of s (all of s if it is shorter)
IsFirstChars(p, s, k) ==
    /\ TextLen(p) = (IF TextLen(s) < k THEN TextLen(s) ELSE k)
    /\ Len(p) <= Len(s)
    /\ \A n \in 1..Len(p) :
          /\ p[n].c = s[n].c
          /\ IF n < Len(p) THEN p[n].n = s[n].n ELSE p[n].n <= s[n].n

\* the run ended on this iteration without a dispatch, and nothing follows
EndsWithoutDispatch ==
    /\ pc \in {"returned", "done"}
    /\ llm_calls = i
    /\ dispatches = i - 1

C9_ErroredRunIsJobError ==
    (/\ result.kind = "return"
     /\ result.prefix \in {MaxIterationsResult.prefix, UnexpectedOutputPrefix}) =>
        /\ job_status # "completed"
        /\ pc = "done" => job_status = "error"

IsToken(v) ==
    v \in {PLACEHOLDER_ORIGINAL_ANALYSIS, PLACEHOLDER_MODIFIED_ANALYSIS,
           PLACEHOLDER_FORMATTING_PLAN}

\* the cache slot a token names
TokenSlot(v, self) ==
    IF v.w = <<"$FULL_ORIGINAL_ANALYSIS">> THEN self.full_original_analysis_json
    ELSE IF v.w = <<"$FULL_MODIFIED_ANALYSIS">> THEN self.full_modified_analysis_json
    ELSE self.current_formatting_plan_json

\* C10: _substitute_placeholders returns a mapping with the same keys in the
\* same order in which a value equal to a token is the content of the token's
\* slot and every other value is the input's; it raises the missing-artifact
\* ValueError exactly when some value equals a token whose slot is empty.
C10_SubstitutionIsExact ==
    fn_out # EmptyIn =>
        LET items == fn_in.action_input.items
            missing == \E n \in 1..Len(items) :
                          IsToken(items[n].v) /\ TokenSlot(items[n].v, fn_in.self) = None
        IN  /\ Raised(fn_out) <=> missing
            /\ Raised(fn_out) => fn_out.exc = "ValueError"
            /\ ~missing =>
                  /\ fn_out.t = "dict"
                  /\ Len(fn_out.items) = Len(items)
                  /\ \A n \in 1..Len(items) :
                        /\ fn_out.items[n].k = items[n].k
                        /\ fn_out.items[n].v =
                              IF IsToken(items[n].v)
                              THEN TokenSlot(items[n].v, fn_in.self)
                              ELSE items[n].v

\* one token was replaced by its slot and a string that only contains a token was kept
C10_Witness ==
    /\ fn_out # EmptyIn /\ fn_out.t = "dict" /\ Len(fn_out.items) = 2
    /\ fn_in.action_input.items[1].v = PLACEHOLDER_MODIFIED_ANALYSIS
    /\ fn_out.items[1].v = fn_in.self.full_modified_analysis_json
    /\ fn_in.action_input.items[2].v = Str(<<"see", "$CURRENT_FORMATTING_PLAN">>)
    /\ fn_out.items[2].v = fn_in.action_input.items[2].v
    /\ fn_in.self.current_formatting_plan_json # None

----------------------------------------------------------------------------
(* Claims about the job table *)

JobStatuses == {"uploaded", "queued", "processing", "completed", "error"}

LifecycleSteps ==
    { <<"absent", "uploaded">>, <<"uploaded", "queued">>, <<"queued", "processing">>,
      <<"processing", "completed">>, <<"processing", "error">> }

\* C11: every job in the table has one of the five statuses, every change
\* of a job's status is a step of uploaded -> queued -> processing ->
\* (completed | error), and so no step changes the status of a job that is
\* completed or in error.
C11_JobLifecycle ==
    /\ [](\A job_id \in JobIds :
              jobs_db[job_id] # NoJob => jobs_db[job_id].status \in JobStatuses)
    /\ [][\A job_id \in JobIds :
              jobs_db'[job_id].status # jobs_db[job_id].status
              => <<jobs_db[job_id].status, jobs_db'[job_id].status>> \in LifecycleSteps]_vars

\* one job completed, the other ended in error, and a process request on
\* one of them has just been refused
C11_Witness ==
    /\ jobs_db["job1"].status = "completed"
    /\ jobs_db["job2"].status = "error"
    /\ response.op = "process" /\ response.code = 400

\* C12: agent.run is called at most once for a job; a process request on a
\* job that is not in state uploaded is refused and changes neither the
\* record nor the tasks; once a job is queued its record changes only in
\* steps of its own task, never in a request.
C12_OneRunPerJob ==
    /\ [](\A job_id \in JobIds : tasks[job_id].runs <= 1)
    /\ [][\A job_id \in JobIds :
              /\ (response' # response /\ response' = Response("process", job_id, 400))
                 => (jobs_db' = jobs_db /\ tasks' = tasks)
              /\ (jobs_db'[job_id] # jobs_db[job_id]
                  /\ jobs_db[job_id].status \notin {"absent", "uploaded"})
                 => (tasks'[job_id] # tasks[job_id] /\ response' = response
                     /\ \A other \in JobIds \ {job_id} : tasks'[other] = tasks[other])]_vars

\* the run of a job is under way and a second process request on it has
\* just been refused
C12_Witness ==
    \E job_id \in JobIds :
        /\ tasks[job_id].runs = 1 /\ tasks[job_id].pc = "running"
        /\ jobs_db[job_id].status = "processing"
        /\ response = Response("process", job_id, 400)

----------------------------------------------------------------------------
(* Claims about the cache of concurrent runs *)

\* the job whose tool call produced a payload ("" for a value that is not
\* the output of a tool)
ProducedBy(v) == IF "by" \in DOMAIN v THEN v.by ELSE ""

Slots(agent) ==
    { agent.full_original_analysis_json, agent.current_formatting_plan_json,
      agent.full_modified_analysis_json }

\* the values of the mapping handed to a tool that are the output of a tool
SubstitutedPayloads(tool_input) ==
    IF tool_input.t = "dict"
    THEN { tool_input.items[n].v : n \in DOMAIN tool_input.items } \ {None}
    ELSE {}

\* C13: a run starts with its three slots empty, and while jobs run
\* concurrently every slot of a job's agent, and every payload substituted
\* for a placeholder in a job's dispatch, was produced by a tool call of
\* that same job's run.
C13_CacheIsJobScoped ==
    /\ [](\A job_id \in JobIds :
              /\ \A slot \in Slots(agents[job_id]) :
                     slot # None => ProducedBy(slot) = job_id
              /\ \A v \in SubstitutedPayloads(agents[job_id].tool_input) :
                     ProducedBy(v) \in {"", job_id})
    /\ [][\A job_id \in JobIds :
              (agents[job_id].pc # "iterating" /\ agents'[job_id].pc = "iterating")
              => Slots(agents'[job_id]) = {None}]_vars

\* both jobs are running with filled slots, and a dispatch of each has just
\* been given the job's own analysis in place of the placeholder
C13_Witness ==
    \A job_id \in JobIds :
        /\ agents[job_id].pc = "iterating"
        /\ agents[job_id].full_original_analysis_json # None
        /\ agents[job_id].current_formatting_plan_json # None
        /\ \E v \in SubstitutedPayloads(agents[job_id].tool_input) :
               ProducedBy(v) = job_id /\ v.path = JobDocPath(job_id)

----------------------------------------------------------------------------
(* Claims about the progress sink, document failures and the set-up *)

\* C14: an exception of the progress callback never reaches the run: no
\* result of run() is that exception, and a loop iteration in which the
\* callback raised invokes the engine and counts as an iteration all the
\* same, with the cache, the history and the result it gives being those
\* the step gives when the callback does not raise.
C14_SinkFailureIsSwallowed ==
    /\ [](result # RaiseOut("CallbackError"))
    /\ [][(callback_raised' /\ pc = "iterating" /\ i < max_iterations)
          => /\ llm_calls' = llm_calls + 1
             /\ i' = i + 1
             /\ pc' \in {"iterating", "returned", "raised"}
             /\ (pc' = "iterating" <=> Len(intermediate_steps') = Len(intermediate_steps) + 1)
             /\ (pc' = "iterating" => dispatches' = dispatches + 1)]_vars

\* the callback raised during an iteration that dispatched a tool and
\* stored its output, and the run went on
C14_Witness ==
    /\ callback_raised
    /\ pc = "iterating" /\ i = 2
    /\ Len(intermediate_steps) = 2
    /\ full_original_analysis_json # None
    /\ tool_calls = 2

\* the Action Inputs that give analyze_document_structure a document path
GivesDocPath(tool_input) ==
    tool_input \in { Str(<<InputDocPath>>), Dict(<<Item("doc_path", Str(<<InputDocPath>>))>>) }

\* the history holds a call of analyze_document_structure on the job's
\* document whose observation is that of a document that failed to load
LoadFailed ==
    \E n \in DOMAIN intermediate_steps :
        /\ intermediate_steps[n][1].tool = "analyze_document_structure"
        /\ GivesDocPath(intermediate_steps[n][1].tool_input)
        /\ intermediate_steps[n][2].of = PyStr(AnalyzeDocumentStructure(InputDocPath, FALSE))

\* C15: once a tool call has failed to load (or save) the document, the
\* loop executes no further iteration and the job ends in state error.
C15_LoadFailureIsFatal ==
    /\ [][LoadFailed => (i' = i /\ llm_calls' = llm_calls)]_vars
    /\ [](LoadFailed /\ pc = "done" => job_status = "error")

\* no source holds a key: each is unset or holds the empty string
KeyMissing(env) == env.dotenv \in {"unset", "empty"} /\ env.os_env \in {"unset", "empty"}

\* the events of a constructor that found no key or could not construct
\* the client
ShowsSetupFailure(events) ==
    \/ events = <<Event("lifecycle", "agent_init_start", <<>>)>>
    \/ \E n \in DOMAIN events :
           \/ events[n] = Event("error", "Fatal: Failed to initialize core LLM", <<>>)
           \/ events[n] = Event("warning", "API key is dummy, placeholder, or missing", <<>>)

\* C16: when the key is missing or ChatGroq cannot be constructed, the
\* constructor raises, so that the task that called it goes to its handler:
\* the job ends in error with no loop iteration, no engine invocation and
\* no tool dispatch.
C16_SetupErrorAbortsBeforeLoop ==
    [][(pc = "task" /\ ShowsSetupFailure(progress'))
          => (pc' = "done" /\ job_status' = "error" /\ i' = 0 /\ llm_calls' = 0
              /\ dispatches' = 0 /\ tool_calls' = 0)]_vars
-----------------------------------------------------------------------------
(* services/document_processor.py: retry_on_rate_limit and the method it   *)
(* decorates, DocumentAgent.process_document.  A text is the sequence of   *)
(* its words; an engine call returns ("ok") or raises with a message.      *)

max_retries == 3
delay == 2

EngineOk == <<"ok">>

EngineMessages ==
    { <<"Rate", "limit", "reached">>, <<"rate_limit_exceeded">>, <<"Connection", "error">> }

\* str.lower on a word
Lower(word) ==
    CASE word \in {"Rate", "RATE"} -> "rate"
      [] word = "LIMIT" -> "limit"
      [] word = "Connection" -> "connection"
      [] OTHER -> word

\* "rate limit" in str(e).lower(), line 57
HasRateLimit(message) ==
    \E n \in 1..(Len(message) - 1) :
        Lower(message[n]) = "rate" /\ Lower(message[n + 1]) = "limit"

\* process_document, lines 355-410, one call of the undecorated method: the
\* whole body is inside try ... except Exception, which returns the error
\* as a dict (lines 404-410)
ProcessDocumentBody(doc, engine) ==
    IF ~doc.loads
    THEN [result |-> [t |-> "return", status |-> "error"], engine_calls |-> 0]
    ELSE IF ~doc.analysis_ok
    THEN [result |-> [t |-> "return", status |-> "error"], engine_calls |-> 0]
    ELSE IF ~doc.instructions
    THEN [result |-> [t |-> "return", status |-> "success"], engine_calls |-> 0]
    ELSE IF engine # EngineOk
    THEN [result |-> [t |-> "return", status |-> "error"], engine_calls |-> 1]
    ELSE IF ~doc.saves
    THEN [result |-> [t |-> "return", status |-> "error"], engine_calls |-> 1]
    ELSE [result |-> [t |-> "return", status |-> "success"], engine_calls |-> 1]

\* the wrapper of retry_on_rate_limit, lines 50-64, around process_document:
\* engines[n] is what the engine does if the n-th call of the body reaches it
RECURSIVE RetryOnRateLimit(_, _, _, _, _)
RetryOnRateLimit(doc, engines, retries, waits, engine_calls) ==
    IF ~(retries < max_retries)
    THEN [result |-> Raise("Exception", <<"Max", "retries", "exceeded", "for", "rate", "limit">>),
          attempts |-> retries, waits |-> waits, engine_calls |-> engine_calls]
    ELSE LET call == ProcessDocumentBody(doc, engines[retries + 1])
             calls == engine_calls + call.engine_calls
         IN  IF ~Raised(call.result)
             THEN [result |-> call.result, attempts |-> retries + 1,
                   waits |-> waits, engine_calls |-> calls]
             ELSE IF HasRateLimit(call.result.about)
             THEN RetryOnRateLimit(doc, engines, retries + 1,
                                   Append(waits, delay * (2 ^ retries)), calls)
             ELSE [result |-> call.result, attempts |-> retries + 1,
                   waits |-> waits, engine_calls |-> calls]

\* agent.process_document(doc_path, instructions)
ProcessDocumentCall(doc, engines) == RetryOnRateLimit(doc, engines, 0, <<>>, 0)

RetryInputs ==
    { [doc |-> [loads |-> l, analysis_ok |-> a, instructions |-> n, saves |-> s],
       engines |-> <<e1, e2, e3>>] :
          l \in BOOLEAN, a \in BOOLEAN, n \in BOOLEAN, s \in BOOLEAN,
          e1 \in EngineMessages \cup {EngineOk}, e2 \in EngineMessages \cup {EngineOk},
          e3 \in EngineMessages \cup {EngineOk} }

InitRetry ==
    /\ InitRun
    /\ JobsIdle
    /\ fn_in \in RetryInputs
    /\ fn_out = EmptyIn

ApplyProcessDocument ==
    /\ fn_out = EmptyIn
    /\ fn_in \in RetryInputs
    /\ fn_out' = ProcessDocumentCall(fn_in.doc, fn_in.engines)
    /\ UNCHANGED << runVars, fn_in, jobVars >>

NextRetry == ApplyProcessDocument

SpecRetry == InitRetry /\ [][NextRetry]_vars

\* the call got as far as the engine
ReachesEngine(doc) == doc.loads /\ doc.analysis_ok /\ doc.instructions

\* each wait is the double of the one before
Doubling(waits) == \A n \in 1..(Len(waits) - 1) : waits[n + 1] = 2 * waits[n]

-----------------------------------------------------------------------------
(* utils/document_utils.py: get_paragraph_details and                      *)
(* get_document_analysis.  A style name is the sequence of its pieces: the *)
(* pieces "Heading" and "Title" stand for these letters, the others are    *)
(* single characters.  A paragraph is its style, if it has one.              *)

MaxStyleLen == 4
MaxParagraphs == 3

Digits == {"1", "7"}
StylePieces == {"Heading", "Title", " ", "-", "s"} \cup Digits

StyleNamesOfLen(n) == [1..n -> StylePieces]

StyleNames == UNION { StyleNamesOfLen(n) : n \in 1..MaxStyleLen }

DigitValue(c) == IF c = "1" THEN 1 ELSE 7

\* str.split(' ')[-1]: what follows the last space
RECURSIVE LastToken(_)
LastToken(name) ==
    IF name = <<>> THEN <<>>
    ELSE IF name[Len(name)] = " " THEN <<>>
    ELSE Append(LastToken(SubSeq(name, 1, Len(name) - 1)), name[Len(name)])

RECURSIVE DecimalValue(_)
DecimalValue(digits) ==
    IF digits = <<>> THEN 0
    ELSE 10 * DecimalValue(SubSeq(digits, 1, Len(digits) - 1)) + DigitValue(digits[Len(digits)])

AllDigits(token) == token # <<>> /\ \A n \in DOMAIN token : token[n] \in Digits

\* int(token): digits with an optional sign, else ValueError
IntOf(token) ==
    IF AllDigits(token) THEN [t |-> "int", v |-> DecimalValue(token)]
    ELSE IF token # <<>> /\ token[1] = "-" /\ AllDigits(Tail(token))
    THEN [t |-> "int", v |-> 0 - DecimalValue(Tail(token))]
    ELSE Raise("ValueError", "invalid literal for int()")

Styled(name) == [has_style |-> TRUE, style |-> name]
Unstyled == [has_style |-> FALSE, style |-> <<>>]

\* para.style.name if para.style else "Default Paragraph Font", line 125
StyleNameOf(para) == IF para.has_style THEN para.style ELSE <<"Default Paragraph Font">>

\* a classification that takes only "Heading N" itself for a heading
GetParagraphDetailsExact(para, para_index) ==
    IF para.has_style /\ para.style[1] = "Heading"
    THEN IF Len(para.style) >= 3 /\ para.style[2] = " "
            /\ AllDigits(SubSeq(para.style, 3, Len(para.style)))
         THEN [paragraph_index |-> para_index, style_name |-> StyleNameOf(para),
               type |-> "heading",
               level |-> DecimalValue(SubSeq(para.style, 3, Len(para.style)))]
         ELSE [paragraph_index |-> para_index, style_name |-> StyleNameOf(para),
               type |-> "paragraph", level |-> 0]
    ELSE IF para.has_style /\ para.style = <<"Title">>
    THEN [paragraph_index |-> para_index, style_name |-> StyleNameOf(para),
          type |-> "heading", level |-> 0]
    ELSE [paragraph_index |-> para_index, style_name |-> StyleNameOf(para),
          type |-> "paragraph"]

\* get_paragraph_details, lines 111-144, as far as the style goes
GetParagraphDetails(para, para_index) ==
    IF para.has_style /\ para.style[1] = "Heading"
    THEN LET level == IntOf(LastToken(para.style))
         IN  IF Raised(level)
             THEN [paragraph_index |-> para_index, style_name |-> StyleNameOf(para),
                   type |-> "paragraph", level |-> 0]
             ELSE [paragraph_index |-> para_index, style_name |-> StyleNameOf(para),
                   type |-> "heading", level |-> level.v]
    ELSE IF para.has_style /\ para.style = <<"Title">>
    THEN [paragraph_index |-> para_index, style_name |-> StyleNameOf(para),
          type |-> "heading", level |-> 0]
    ELSE [paragraph_index |-> para_index, style_name |-> StyleNameOf(para),
          type |-> "paragraph"]

\* get_document_analysis, lines 146-157
GetDocumentAnalysis(document) ==
    [elements |-> [n \in 1..Len(document.paragraphs) |->
                      GetParagraphDetails(document.paragraphs[n], n - 1)]]

\* styles of the documents of several paragraphs
SampleStyles ==
    { Unstyled, Styled(<<"Title">>), Styled(<<"s">>), Styled(<<"Heading", " ", "1">>),
      Styled(<<"Heading", " ", "7">>), Styled(<<"Heading", " ", "s">>) }

AnalysisInputs ==
    { [paragraphs |-> <<Styled(s)>>] : s \in StyleNames } \cup
    { [paragraphs |-> paras] : paras \in UNION { [1..n -> SampleStyles] : n \in 0..MaxParagraphs } }

InitAnalysis ==
    /\ InitRun
    /\ JobsIdle
    /\ fn_in \in AnalysisInputs
    /\ fn_out = EmptyIn

ApplyGetDocumentAnalysis ==
    /\ fn_out = EmptyIn
    /\ fn_in \in AnalysisInputs
    /\ fn_out' = GetDocumentAnalysis(fn_in)
    /\ UNCHANGED << runVars, fn_in, jobVars >>

NextAnalysis == ApplyGetDocumentAnalysis

SpecAnalysis == InitAnalysis /\ [][NextAnalysis]_vars

Analysed == fn_out # EmptyIn /\ "elements" \in DOMAIN fn_out

\* C18: the analysis has one element per paragraph, in the order of the
\* paragraphs, each with its 0-based position as paragraph_index, and every
\* level it reports is an integer from 0 to 6.
C18_IndexedAndLevelBounded ==
    Analysed =>
        /\ Len(fn_out.elements) = Len(fn_in.paragraphs)
        /\ \A n \in 1..Len(fn_in.paragraphs) :
               LET el == fn_out.elements[n]
               IN  /\ el.paragraph_index = n - 1
                   /\ el.style_name = (IF fn_in.paragraphs[n].has_style
                                       THEN fn_in.paragraphs[n].style
                                       ELSE <<"Default Paragraph Font">>)
                   /\ ("level" \in DOMAIN el => el.level \in 0..6)


\* the name is "Heading N": "Heading", a space, a numeral
IsHeadingN(name) ==
    /\ Len(name) >= 3 /\ name[1] = "Heading" /\ name[2] = " "
    /\ AllDigits(SubSeq(name, 3, Len(name)))

StartsWithHeading(name) == name[1] = "Heading"

\* the element of the n-th paragraph is a heading of this level
IsHeading(el, level) == el.type = "heading" /\ "level" \in DOMAIN el /\ el.level = level

IsPlainParagraph(el) == el.type = "paragraph" /\ "level" \notin DOMAIN el

\* C19, as stated: 'Title' is a heading of level 0, 'Heading N' a heading of
\* level N, a style that starts with 'Heading' and does not end in a numeral
\* a paragraph of level 0, every other style a paragraph; the type is one of
\* paragraph and heading.
C19_ClassificationAsStated ==
    Analysed =>
        \A n \in 1..Len(fn_in.paragraphs) :
            LET para == fn_in.paragraphs[n]
                el == fn_out.elements[n]
            IN  /\ el.type \in {"paragraph", "heading"}
                /\ IF ~para.has_style THEN el.type = "paragraph"
                   ELSE IF para.style = <<"Title">> THEN IsHeading(el, 0)
                   ELSE IF IsHeadingN(para.style)
                   THEN IsHeading(el, DecimalValue(SubSeq(para.style, 3, Len(para.style))))
                   ELSE IF StartsWithHeading(para.style) /\ ~AllDigits(LastToken(para.style))
                   THEN el.type = "paragraph" /\ el.level = 0
                   ELSE el.type = "paragraph"

\* C19, amended: 'Title' is a heading of level 0; a style that starts with
\* 'Heading' is a heading of level N whenever what follows its last space
\* reads as the integer N, sign included ('Heading N', and 'Headings 1' and
\* 'Heading -1' as well), and a paragraph of level 0 when it does not; every
\* other style is a paragraph, without a level; the type is one of paragraph
\* and heading.
C19_Classification ==
    Analysed =>
        \A n \in 1..Len(fn_in.paragraphs) :
            LET para == fn_in.paragraphs[n]
                el == fn_out.elements[n]
            IN  /\ el.type \in {"paragraph", "heading"}
                /\ IF ~para.has_style THEN IsPlainParagraph(el)
                   ELSE IF StartsWithHeading(para.style)
                   THEN IF Raised(IntOf(LastToken(para.style)))
                        THEN el.type = "paragraph" /\ el.level = 0
                        ELSE IsHeading(el, IntOf(LastToken(para.style)).v)
                   ELSE IF para.style = <<"Title">> THEN IsHeading(el, 0)
                   ELSE IsPlainParagraph(el)

\* a paragraph of style 'Headings 1' was analysed: a heading of level 1
C19_Witness ==
    /\ Analysed
    /\ fn_in.paragraphs = <<Styled(<<"Heading", "s", " ", "1">>)>>
    /\ IsHeading(fn_out.elements[1], 1)

-----------------------------------------------------------------------------
(* utils/document_utils.py: the setters of lines 161-195 and the action    *)
(* handlers of lines 200-392, called by apply_contextual_formatting        *)
(* (core/tools.py, lines 286-312).  An action is the record of its keys,   *)
(* Absent for a key the dict does not have.  A paragraph holds its format  *)
(* and its runs; an attribute that is not set is None.                     *)

Absent == [t |-> "absent"]
Num(v) == [t |-> "num", v |-> v]
Bool(b) == [t |-> "bool", v |-> b]

\* dict.get(key)
Get(action, key) == IF action[key] = Absent THEN None ELSE action[key]

\* truth value of a str, a number, a bool or None
Truth(v) ==
    IF v.t = "none" THEN FALSE
    ELSE IF v.t = "str" THEN v.w # <<>>
    ELSE IF v.t = "num" THEN v.v # 0
    ELSE v.v

\* docx.shared.Pt: a length in EMU
Pt(points) == Num(points.v * 12700)

\* str.upper on the alignment names given
Upper(word) ==
    CASE word = "center" -> "CENTER"
      [] word = "middle" -> "MIDDLE"
      [] word = "distribute" -> "DISTRIBUTE"
      [] OTHER -> word

\* the names that getattr finds in WD_ALIGN_PARAGRAPH (line 189): the members
\* of python-docx's enumeration of paragraph alignments
AlignmentNames ==
    {"LEFT", "CENTER", "RIGHT", "JUSTIFY", "DISTRIBUTE",
     "JUSTIFY_MED", "JUSTIFY_HI", "JUSTIFY_LOW", "THAI_JUSTIFY"}

\* a setter of the font that writes every argument, given or not
SetParagraphFontPropertiesAlways(paragraph, font_name, size_pt, bold, italic, underline) ==
    [paragraph EXCEPT !.runs =
        [n \in DOMAIN paragraph.runs |->
            [font_name |-> font_name,
             font_size |-> IF size_pt.t = "num" THEN Pt(size_pt) ELSE None,
             bold |-> bold, italic |-> italic, underline |-> underline]]]

\* a setter of the font that takes the size as an increase
SetParagraphFontPropertiesRelative(paragraph, font_name, size_pt, bold, italic, underline) ==
    [paragraph EXCEPT !.runs =
        [n \in DOMAIN paragraph.runs |->
            LET run == paragraph.runs[n]
            IN  [font_name |-> IF Truth(font_name) THEN font_name ELSE run.font_name,
                 font_size |-> IF Truth(size_pt)
                               THEN IF run.font_size = None THEN Pt(size_pt)
                                    ELSE Num(run.font_size.v + Pt(size_pt).v)
                               ELSE run.font_size,
                 bold |-> IF bold # None THEN bold ELSE run.bold,
                 italic |-> IF italic # None THEN italic ELSE run.italic,
                 underline |-> IF underline # None THEN underline ELSE run.underline]]]

\* set_paragraph_font_properties, lines 161-173
SetParagraphFontProperties(paragraph, font_name, size_pt, bold, italic, underline) ==
    [paragraph EXCEPT !.runs =
        [n \in DOMAIN paragraph.runs |->
            LET run == paragraph.runs[n]
            IN  [font_name |-> IF Truth(font_name) THEN font_name ELSE run.font_name,
                 font_size |-> IF Truth(size_pt) THEN Pt(size_pt) ELSE run.font_size,
                 bold |-> IF bold # None THEN bold ELSE run.bold,
                 italic |-> IF italic # None THEN italic ELSE run.italic,
                 underline |-> IF underline # None THEN underline ELSE run.underline]]]

\* set_paragraph_spacing_properties, lines 175-182
SetParagraphSpacingProperties(paragraph, spacing_before_pt, spacing_after_pt, line_spacing_rule) ==
    [paragraph EXCEPT
        !.space_before = IF spacing_before_pt # None THEN Pt(spacing_before_pt) ELSE @,
        !.space_after = IF spacing_after_pt # None THEN Pt(spacing_after_pt) ELSE @,
        !.line_spacing = IF line_spacing_rule # None THEN line_spacing_rule ELSE @]

\* set_paragraph_alignment_properties, lines 185-195: a name that is not a
\* member is skipped, and so is a value without upper()
SetParagraphAlignmentProperties(paragraph, alignment) ==
    IF Truth(alignment) /\ alignment.t = "str" /\ Len(alignment.w) = 1
          /\ Upper(alignment.w[1]) \in AlignmentNames
    THEN [paragraph EXCEPT !.alignment = Str(<<Upper(alignment.w[1])>>)]
    ELSE paragraph

\* the paragraphs of the document: a heading of level 1 and a body paragraph
DocStyles == << Styled(<<"Heading", " ", "1">>), Styled(<<"s">>) >>

\* the analysis of the document as it is
ElementsDetails == GetDocumentAnalysis([paragraphs |-> DocStyles]).elements

\* a test of the type alone
IsHeadingOfAnyLevel(el_detail, level) == el_detail.type = "heading"

IsHeadingOfLevel(el_detail, level) ==
    /\ el_detail.type = "heading"
    /\ "level" \in DOMAIN el_detail
    /\ level.t = "num"
    /\ el_detail.level = level.v

\* a test that takes every element
IsAnyElement(el_detail) == TRUE

IsBodyParagraph(el_detail) == el_detail.type = "paragraph"

\* doc.paragraphs[index] for an index that passed "< len(doc.paragraphs)":
\* the 1-based position, a negative index counting from the end
ListPosition(doc, index) == IF index >= 0 THEN index + 1 ELSE Len(doc) + index + 1

\* the paragraphs (1-based) of the elements of one kind, lines 220-225:
\* el_detail["paragraph_index"] < len(doc.paragraphs) is the only test
ElementParas(doc, elements_details, kind, level) ==
    { ListPosition(doc, elements_details[e].paragraph_index) :
        e \in { x \in DOMAIN elements_details :
                  /\ IF kind = "heading" THEN IsHeadingOfLevel(elements_details[x], level)
                     ELSE IsBodyParagraph(elements_details[x])
                  /\ elements_details[x].paragraph_index < Len(doc) } }

\* a scope is the sequence of its pieces, the number after the last "_"
\* written as in a style name; int(scope.split("_")[-1])
ScopeNumber(scope) == IntOf(Tail(scope.w))

\* the paragraphs a scope resolved to
Targets(paras) == [t |-> "targets", paras |-> paras]

\* a handler that returned: the document as it left it
Handled(doc) == [t |-> "handled", doc |-> doc]

\* a resolution that takes every paragraph, whatever the scope
TargetParasOrAll(doc, elements_details, scope, known) == Targets(DOMAIN doc)

\* the paragraphs (1-based) a scope selects, lines 214-243, 299-310 and
\* 321-341; the scopes "headings_level_N" and "paragraph_index_N" are read
\* by the handlers that know them; a scope that is no str and is truthy has
\* no startswith
TargetParas(doc, elements_details, scope, known) ==
    IF scope = Str(<<"all_paragraphs">>) THEN Targets(DOMAIN doc)
    ELSE IF known # {} /\ Truth(scope) /\ scope.t # "str"
    THEN Raise("AttributeError", "startswith")
    ELSE IF "headings_level_" \in known /\ Truth(scope) /\ scope.w[1] = "headings_level_"
    THEN IF Raised(ScopeNumber(scope)) THEN Targets({})
         ELSE Targets(ElementParas(doc, elements_details, "heading", Num(ScopeNumber(scope).v)))
    ELSE IF "paragraph_index_" \in known /\ Truth(scope) /\ scope.w[1] = "paragraph_index_"
    THEN IF Raised(ScopeNumber(scope)) THEN Targets({})
         ELSE Targets({ n \in DOMAIN doc : n - 1 = ScopeNumber(scope).v })
    ELSE IF scope = Str(<<"all_body_paragraphs">>)
    THEN Targets(ElementParas(doc, elements_details, "paragraph", None))
    ELSE Targets({})

\* apply_set_font_action, lines 200-248
ApplySetFontAction(doc, elements_details, action) ==
    LET target_paras == TargetParas(doc, elements_details, Get(action, "scope"),
                                    {"headings_level_", "paragraph_index_"})
    IN  IF Raised(target_paras) THEN target_paras
        ELSE Handled([n \in DOMAIN doc |->
                IF n \in target_paras.paras
                THEN SetParagraphFontProperties(doc[n], Get(action, "font_name"),
                         Get(action, "size"), Get(action, "bold"), Get(action, "italic"),
                         Get(action, "underline"))
                ELSE doc[n]])

\* apply_set_heading_style_action, lines 251-280
ApplySetHeadingStyleAction(doc, elements_details, action) ==
    LET target_paras == ElementParas(doc, elements_details, "heading", Get(action, "level"))
    IN  Handled([n \in DOMAIN doc |->
            IF n \in target_paras
            THEN LET styled == SetParagraphFontProperties(doc[n], Get(action, "font_name"),
                                   Get(action, "size"), Get(action, "bold"),
                                   Get(action, "italic"), Get(action, "underline"))
                 IN  IF Get(action, "spacing_after") # None
                     THEN SetParagraphSpacingProperties(styled, None,
                              Get(action, "spacing_after"), None)
                     ELSE styled
            ELSE doc[n]])

\* apply_set_paragraph_spacing_action, lines 283-310
ApplySetParagraphSpacingAction(doc, elements_details, action) ==
    LET target_paras == TargetParas(doc, elements_details, Get(action, "scope"), {})
    IN  Handled([n \in DOMAIN doc |->
            IF n \in target_paras.paras
            THEN SetParagraphSpacingProperties(doc[n], Get(action, "spacing_before"),
                     Get(action, "spacing_after"), Get(action, "line_spacing"))
            ELSE doc[n]])

\* apply_set_alignment_action, lines 313-345
ApplySetAlignmentAction(doc, elements_details, action) ==
    LET target_paras == TargetParas(doc, elements_details, Get(action, "scope"),
                                    {"headings_level_"})
    IN  IF Raised(target_paras) THEN target_paras
        ELSE Handled([n \in DOMAIN doc |->
                IF n \in target_paras.paras
                THEN SetParagraphAlignmentProperties(doc[n], Get(action, "alignment"))
                ELSE doc[n]])

\* apply_fix_font_inconsistencies_action, lines 351-392: the paragraphs at
\* the positions of enumerate(elements_details)
ApplyFixFontInconsistenciesAction(doc, elements_details, action) ==
    LET target_font_name == Get(action, "target_font_name")
        target_font_size_pt == Get(action, "target_font_size")
    IN  IF ~Truth(target_font_name) /\ ~Truth(target_font_size_pt) THEN Handled(doc)
        ELSE Handled([n \in DOMAIN doc |->
                IF n - 1 >= Len(elements_details) THEN doc[n]
                ELSE
                [doc[n] EXCEPT !.runs =
                    [r \in DOMAIN doc[n].runs |->
                        LET run == doc[n].runs[r]
                        IN  [run EXCEPT
                                !.font_name =
                                    IF Truth(target_font_name) /\ @ # target_font_name
                                    THEN target_font_name ELSE @,
                                !.font_size =
                                    IF Truth(target_font_size_pt) /\ @ # Pt(target_font_size_pt)
                                    THEN Pt(target_font_size_pt) ELSE @]]]])

\* the keys an action can have
ActionKeys ==
    {"action", "scope", "level", "font_name", "size", "bold", "italic", "underline",
     "spacing_before", "spacing_after", "line_spacing", "alignment",
     "target_font_name", "target_font_size"}

NoKeys == [k \in ActionKeys |-> Absent]

Given(values) == {Absent} \cup values

Scopes ==
    { Str(<<"all_paragraphs">>), Str(<<"all_body_paragraphs">>), Str(<<"everything">>),
      Str(<<"headings_level_", "1">>), Str(<<"headings_level_", "7">>),
      Str(<<"headings_level_", "s">>), Str(<<"headings_level_">>),
      Str(<<"paragraph_index_", "1">>), Str(<<"paragraph_index_", "7">>),
      Str(<<"paragraph_index_", "-", "1">>), Str(<<"paragraph_index_", "s">>) }

\* the analysis handed over with the plan: that of the document as it is,
\* one of its first paragraph only, one taken when the document had four
\* paragraphs, one whose index counts from the end
Snapshots ==
    { ElementsDetails,
      SubSeq(ElementsDetails, 1, 1),
      ElementsDetails \o
          << [ElementsDetails[1] EXCEPT !.paragraph_index = 2],
             [ElementsDetails[2] EXCEPT !.paragraph_index = 3] >>,
      << ElementsDetails[1], [ElementsDetails[2] EXCEPT !.paragraph_index = 0 - 1] >> }

FontNames == {Str(<<>>), Str(<<"Arial">>)}
Sizes == {Num(0), Num(12)}
Flags == {Bool(TRUE), Bool(FALSE)}

SetFontActions ==
    { [NoKeys EXCEPT !["action"] = Str(<<"set_font">>), !["scope"] = sc,
          !["font_name"] = fn, !["size"] = sz, !["bold"] = b, !["italic"] = it,
          !["underline"] = u] :
        sc \in Given(Scopes), fn \in Given(FontNames), sz \in Given(Sizes), b \in Given(Flags),
        it \in Given({Bool(TRUE)}), u \in Given({Bool(FALSE)}) }

SetHeadingStyleActions ==
    { [NoKeys EXCEPT !["action"] = Str(<<"set_heading_style">>), !["level"] = lv,
          !["font_name"] = fn, !["size"] = sz, !["bold"] = b, !["spacing_after"] = sa] :
        lv \in Given({Num(1), Num(2)}), fn \in Given({Str(<<"Arial">>)}),
        sz \in Given({Num(12)}), b \in Given(Flags), sa \in Given(Sizes) }

SetParagraphSpacingActions ==
    { [NoKeys EXCEPT !["action"] = Str(<<"set_paragraph_spacing">>), !["scope"] = sc,
          !["spacing_before"] = sb, !["spacing_after"] = sa, !["line_spacing"] = ls] :
        sc \in Scopes, sb \in Given(Sizes), sa \in Given(Sizes), ls \in Given({Num(2)}) }

SetAlignmentActions ==
    { [NoKeys EXCEPT !["action"] = Str(<<"set_alignment">>), !["scope"] = sc,
          !["alignment"] = al] :
        sc \in Given(Scopes),
        al \in Given({Str(<<>>), Str(<<"center">>), Str(<<"RIGHT">>), Str(<<"middle">>),
                      Str(<<"distribute">>), Num(1)}) }

FixFontInconsistenciesActions ==
    { [NoKeys EXCEPT !["action"] = Str(<<"fix_font_inconsistencies">>),
          !["target_font_name"] = fn, !["target_font_size"] = sz] :
        fn \in Given(FontNames), sz \in Given(Sizes) }

FormattingActions ==
    SetFontActions \cup SetHeadingStyleActions \cup SetParagraphSpacingActions
        \cup SetAlignmentActions \cup FixFontInconsistenciesActions

\* the document before the action: every attribute of the heading is set,
\* the body paragraph has attributes that are not
DocBefore ==
    << [runs |-> <<[font_name |-> Str(<<"Times">>), font_size |-> Num(10 * 12700),
                    bold |-> Bool(TRUE), italic |-> Bool(FALSE), underline |-> Bool(TRUE)]>>,
        space_before |-> Num(6 * 12700), space_after |-> Num(6 * 12700),
        line_spacing |-> Num(1), alignment |-> Str(<<"LEFT">>)],
       [runs |-> <<[font_name |-> Str(<<"Times">>), font_size |-> None,
                    bold |-> None, italic |-> Bool(TRUE), underline |-> None],
                   [font_name |-> Str(<<"Arial">>), font_size |-> Num(12 * 12700),
                    bold |-> Bool(FALSE), italic |-> None, underline |-> Bool(FALSE)]>>,
        space_before |-> None, space_after |-> Num(6 * 12700),
        line_spacing |-> None, alignment |-> Str(<<"JUSTIFY">>)] >>

MergeInputs ==
    { [doc |-> DocBefore, elements_details |-> ed, action |-> a] :
        ed \in Snapshots, a \in FormattingActions }

InitMerge ==
    /\ InitRun
    /\ JobsIdle
    /\ fn_in \in MergeInputs
    /\ fn_out = EmptyIn

\* the handler of the action's type is called, core/tools.py lines 300-308
Handle(action_type, handler_result) ==
    /\ fn_out = EmptyIn
    /\ fn_in \in MergeInputs
    /\ fn_in.action["action"] = Str(<<action_type>>)
    /\ fn_out' = handler_result
    /\ UNCHANGED << runVars, fn_in, jobVars >>

HandleSetFont ==
    Handle("set_font",
           ApplySetFontAction(fn_in.doc, fn_in.elements_details, fn_in.action))

HandleSetHeadingStyle ==
    Handle("set_heading_style",
           ApplySetHeadingStyleAction(fn_in.doc, fn_in.elements_details, fn_in.action))

HandleSetParagraphSpacing ==
    Handle("set_paragraph_spacing",
           ApplySetParagraphSpacingAction(fn_in.doc, fn_in.elements_details, fn_in.action))

HandleSetAlignment ==
    Handle("set_alignment",
           ApplySetAlignmentAction(fn_in.doc, fn_in.elements_details, fn_in.action))

HandleFixFontInconsistencies ==
    Handle("fix_font_inconsistencies",
           ApplyFixFontInconsistenciesAction(fn_in.doc, fn_in.elements_details,
                                             fn_in.action))

NextMerge ==
    \/ HandleSetFont
    \/ HandleSetHeadingStyle
    \/ HandleSetParagraphSpacing
    \/ HandleSetAlignment
    \/ HandleFixFontInconsistencies

SpecMerge == InitMerge /\ [][NextMerge]_vars

Formatted == fn_out # EmptyIn /\ "doc" \in DOMAIN fn_out

\* the action has the key, with a value
Specifies(action, key) == action[key] # Absent /\ action[key] # None

\* the key of the action that stands for an attribute of a run
RunAttributeKey(action, attribute) ==
    IF action["action"] = Str(<<"fix_font_inconsistencies">>)
    THEN IF attribute = "font_name" THEN "target_font_name"
         ELSE IF attribute = "font_size" THEN "target_font_size"
         ELSE "none"
    ELSE IF action["action"] \in {Str(<<"set_font">>), Str(<<"set_heading_style">>)}
    THEN IF attribute = "font_size" THEN "size" ELSE attribute
    ELSE "none"

\* the key of the action that stands for an attribute of a paragraph
ParagraphAttributeKey(action, attribute) ==
    IF action["action"] = Str(<<"set_paragraph_spacing">>)
    THEN IF attribute = "space_before" THEN "spacing_before"
         ELSE IF attribute = "space_after" THEN "spacing_after"
         ELSE IF attribute = "line_spacing" THEN "line_spacing"
         ELSE "none"
    ELSE IF action["action"] = Str(<<"set_heading_style">>)
    THEN IF attribute = "space_after" THEN "spacing_after" ELSE "none"
    ELSE IF action["action"] = Str(<<"set_alignment">>)
    THEN IF attribute = "alignment" THEN "alignment" ELSE "none"
    ELSE "none"

SpecifiesAttribute(action, key) == key # "none" /\ Specifies(action, key)

\* C20: after a formatting action, an attribute of a run or of a paragraph
\* differs from its value before only if the action specifies it; every
\* attribute the action does not specify has the value it had, and none was
\* cleared.
C20_FieldLevelMerge ==
    Formatted =>
        \A n \in DOMAIN fn_in.doc :
            LET before == fn_in.doc[n]
                after == fn_out.doc[n]
            IN  /\ DOMAIN after.runs = DOMAIN before.runs
                /\ \A r \in DOMAIN before.runs :
                       \A attribute \in {"font_name", "font_size", "bold", "italic", "underline"} :
                           /\ (after.runs[r][attribute] # before.runs[r][attribute]
                                  => SpecifiesAttribute(fn_in.action,
                                         RunAttributeKey(fn_in.action, attribute)))
                           /\ (before.runs[r][attribute] # None
                                  => after.runs[r][attribute] # None)
                /\ \A attribute \in {"space_before", "space_after", "line_spacing", "alignment"} :
                       /\ (after[attribute] # before[attribute]
                              => SpecifiesAttribute(fn_in.action,
                                     ParagraphAttributeKey(fn_in.action, attribute)))
                       /\ (before[attribute] # None => after[attribute] # None)

\* set_font with only a font name was applied to every paragraph: the name
\* is written, the size and the three flags of the heading's run are as before
C20_Witness ==
    /\ Formatted
    /\ fn_in.action = [NoKeys EXCEPT !["action"] = Str(<<"set_font">>),
                          !["scope"] = Str(<<"all_paragraphs">>),
                          !["font_name"] = Str(<<"Arial">>)]
    /\ fn_out.doc[1].runs[1].font_name = Str(<<"Arial">>)
    /\ fn_out.doc[1].runs[1].font_size = Num(10 * 12700)
    /\ fn_out.doc[1].runs[1].bold = Bool(TRUE)
    /\ fn_out.doc[1].runs[1].underline = Bool(TRUE)


\* the analysis is one that get_document_analysis gives: each element has
\* its position as paragraph_index
ProducedSnapshot ==
    \A e \in DOMAIN fn_in.elements_details : fn_in.elements_details[e].paragraph_index = e - 1

ActionIs(action_type) == fn_in.action["action"] = Str(<<action_type>>)

\* the analysis has the n-th paragraph as a heading of this level
ClassifiedHeading(n, level) ==
    \E e \in DOMAIN fn_in.elements_details :
        LET el == fn_in.elements_details[e]
        IN  /\ el.paragraph_index = n - 1
            /\ el.type = "heading" /\ "level" \in DOMAIN el
            /\ level.t = "num" /\ el.level = level.v

\* the analysis has the n-th paragraph as a body paragraph
ClassifiedParagraph(n) ==
    \E e \in DOMAIN fn_in.elements_details :
        /\ fn_in.elements_details[e].paragraph_index = n - 1
        /\ fn_in.elements_details[e].type = "paragraph"

\* every run of the paragraph has the font values the action gives
HasFontOf(para, action) ==
    \A r \in DOMAIN para.runs :
        /\ Truth(Get(action, "font_name")) => para.runs[r].font_name = action["font_name"]
        /\ Truth(Get(action, "size")) => para.runs[r].font_size = Num(action["size"].v * 12700)
        /\ Specifies(action, "bold") => para.runs[r].bold = action["bold"]
        /\ Specifies(action, "italic") => para.runs[r].italic = action["italic"]
        /\ Specifies(action, "underline") => para.runs[r].underline = action["underline"]

\* C21: set_heading_style with level L gives the font name, size, flags and
\* spacing_after of the action to every paragraph that the analysis of the
\* document has as a heading of level L, and leaves every other paragraph as
\* it was.
C21_HeadingStyleTargetsLevel ==
    (Formatted /\ ActionIs("set_heading_style") /\ ProducedSnapshot) =>
        \A n \in DOMAIN fn_in.doc :
            IF ClassifiedHeading(n, Get(fn_in.action, "level"))
            THEN /\ HasFontOf(fn_out.doc[n], fn_in.action)
                 /\ Specifies(fn_in.action, "spacing_after")
                        => fn_out.doc[n].space_after =
                               Num(fn_in.action["spacing_after"].v * 12700)
            ELSE fn_out.doc[n] = fn_in.doc[n]

\* the heading of level 1 has the font of the action, the body paragraph
\* is as before
C21_Witness ==
    /\ Formatted /\ ActionIs("set_heading_style") /\ ProducedSnapshot
    /\ fn_in.action["level"] = Num(1)
    /\ fn_in.action["font_name"] = Str(<<"Arial">>)
    /\ fn_in.action["size"] = Num(12)
    /\ fn_in.action["bold"] = Bool(FALSE)
    /\ fn_out.doc[1].runs[1] # fn_in.doc[1].runs[1]
    /\ fn_out.doc[1].runs[1].font_name = Str(<<"Arial">>)
    /\ fn_out.doc[2] = fn_in.doc[2]


\* C22: set_font with scope all_body_paragraphs gives its font values to the
\* runs of every paragraph that the analysis of the document has as type
\* paragraph, and changes no other paragraph: no heading is modified.
C22_BodyScopeSparesHeadings ==
    (Formatted /\ ActionIs("set_font") /\ ProducedSnapshot
        /\ fn_in.action["scope"] = Str(<<"all_body_paragraphs">>)) =>
        \A n \in DOMAIN fn_in.doc :
            IF ClassifiedParagraph(n)
            THEN HasFontOf(fn_out.doc[n], fn_in.action)
            ELSE fn_out.doc[n] = fn_in.doc[n]

\* the two runs of the body paragraph have the new name and size, the
\* heading is as before
C22_Witness ==
    /\ Formatted /\ ActionIs("set_font") /\ ProducedSnapshot
    /\ fn_in.action["scope"] = Str(<<"all_body_paragraphs">>)
    /\ fn_in.action["font_name"] = Str(<<"Arial">>)
    /\ fn_in.action["size"] = Num(12)
    /\ ClassifiedParagraph(2)
    /\ fn_out.doc[2].runs[1].font_name = Str(<<"Arial">>)
    /\ fn_out.doc[2].runs[1].font_size = Num(12 * 12700)
    /\ fn_out.doc[1] = fn_in.doc[1]


\* C23: after fix_font_inconsistencies with a target name and/or size, every
\* run of every paragraph of the document has the target name and/or size,
\* whatever analysis comes with the action.
C23_FixFontIsGlobal ==
    (Formatted /\ ActionIs("fix_font_inconsistencies")) =>
        \A n \in DOMAIN fn_out.doc :
            \A r \in DOMAIN fn_out.doc[n].runs :
                /\ Truth(Get(fn_in.action, "target_font_name"))
                       => fn_out.doc[n].runs[r].font_name = fn_in.action["target_font_name"]
                /\ Truth(Get(fn_in.action, "target_font_size"))
                       => fn_out.doc[n].runs[r].font_size =
                              Num(fn_in.action["target_font_size"].v * 12700)

-----------------------------------------------------------------------------
(* core/tools.py, apply_contextual_formatting, lines 286-325: the plan is  *)
(* applied to the loaded document action by action, and the document is    *)
(* saved.  An entry of the plan is an action, or a value that is no dict.  *)

MaxPlanLen == 3

IsMapping(entry) == "action" \in DOMAIN entry

\* handler(doc, elements_details, action), line 305, for the handlers of
\* lines 289-297
CallHandler(doc, elements_details, action) ==
    LET action_type == Get(action, "action")
    IN  IF action_type = Str(<<"set_font">>)
        THEN ApplySetFontAction(doc, elements_details, action)
        ELSE IF action_type = Str(<<"set_heading_style">>)
        THEN ApplySetHeadingStyleAction(doc, elements_details, action)
        ELSE IF action_type = Str(<<"set_paragraph_spacing">>)
        THEN ApplySetParagraphSpacingAction(doc, elements_details, action)
        ELSE IF action_type = Str(<<"set_alignment">>)
        THEN ApplySetAlignmentAction(doc, elements_details, action)
        ELSE IF action_type = Str(<<"fix_font_inconsistencies">>)
        THEN ApplyFixFontInconsistenciesAction(doc, elements_details, action)
        ELSE [t |-> "no handler"]

\* the plan taken from its last action to its first
RECURSIVE ApplyPlanActionsBackwards(_, _, _)
ApplyPlanActionsBackwards(doc, elements_details, plan_actions) ==
    IF plan_actions = <<>>
    THEN [t |-> "applied", doc |-> doc, applied |-> 0, skipped |-> 0]
    ELSE LET action == plan_actions[Len(plan_actions)]
             rest == SubSeq(plan_actions, 1, Len(plan_actions) - 1)
         IN  IF ~IsMapping(action) THEN Raise("AttributeError", "get")
             ELSE LET handled == CallHandler(doc, elements_details, action)
                      ok == handled.t = "handled"
                      after == ApplyPlanActionsBackwards(IF ok THEN handled.doc ELSE doc,
                                                        elements_details, rest)
                  IN  IF Raised(after) THEN after
                      ELSE [after EXCEPT
                               !.applied = IF ok THEN @ + 1 ELSE @,
                               !.skipped = IF ok THEN @ ELSE @ + 1]

\* the loop of lines 299-312: action.get is outside the try of line 304, the
\* handler's call inside it
RECURSIVE ApplyPlanActions(_, _, _)
ApplyPlanActions(doc, elements_details, plan_actions) ==
    IF plan_actions = <<>>
    THEN [t |-> "applied", doc |-> doc, applied |-> 0, skipped |-> 0]
    ELSE LET action == Head(plan_actions)
         IN  IF ~IsMapping(action) THEN Raise("AttributeError", "get")
             ELSE LET handled == CallHandler(doc, elements_details, action)
                      ok == handled.t = "handled"
                      after == ApplyPlanActions(IF ok THEN handled.doc ELSE doc,
                                                elements_details, Tail(plan_actions))
                  IN  IF Raised(after) THEN after
                      ELSE [after EXCEPT
                               !.applied = IF ok THEN @ + 1 ELSE @,
                               !.skipped = IF ok THEN @ ELSE @ + 1]

\* lines 286-325 from load_document on: the loop, save_document, the result;
\* an exception of the loop or of the save gives the error result of line 325
ApplyFormattingPlan(doc, elements_details, plan_actions, saves) ==
    LET done == ApplyPlanActions(doc, elements_details, plan_actions)
    IN  IF Raised(done) \/ ~saves
        THEN [status |-> "error", saved |-> None, actions_applied |-> 0,
              actions_skipped_or_failed |-> 0]
        ELSE [status |-> "success", saved |-> [doc |-> done.doc],
              actions_applied |-> done.applied,
              actions_skipped_or_failed |-> done.skipped]

SetFont(scope, key, value) ==
    [NoKeys EXCEPT !["action"] = Str(<<"set_font">>), !["scope"] = scope, ![key] = value]

SetAlignment(scope, value) ==
    [NoKeys EXCEPT !["action"] = Str(<<"set_alignment">>), !["scope"] = scope,
        !["alignment"] = value]

\* actions that apply
GoodEntries ==
    { SetFont(Str(<<"all_paragraphs">>), "font_name", Str(<<"Arial">>)),
      SetFont(Str(<<"all_paragraphs">>), "font_name", Str(<<"Courier">>)),
      SetFont(Str(<<"paragraph_index_", "1">>), "size", Num(12)),
      SetAlignment(Str(<<"all_paragraphs">>), Str(<<"center">>)) }

\* actions whose scope is unknown, malformed, missing or matches nothing
BadScopeEntries ==
    { SetFont(Str(<<"everything">>), "font_name", Str(<<"Arial">>)),
      SetFont(Absent, "bold", Bool(TRUE)),
      SetFont(Str(<<"paragraph_index_", "s">>), "bold", Bool(TRUE)),
      SetAlignment(Str(<<"headings_level_", "7">>), Str(<<"RIGHT">>)) }

\* an action of a type without handler, an action whose handler raises (its
\* scope is a number), an entry that is a str
BadEntries ==
    { [NoKeys EXCEPT !["action"] = Str(<<"ensure_consistent_style">>)],
      SetFont(Num(5), "font_name", Str(<<"Arial">>)),
      Str(<<"set_font">>) }

PlanEntries == GoodEntries \cup BadScopeEntries \cup BadEntries

PlanInputs ==
    { [doc |-> DocBefore, elements_details |-> ElementsDetails, plan_actions |-> p,
       saves |-> s] :
        p \in UNION { [1..n -> PlanEntries] : n \in 0..MaxPlanLen }, s \in BOOLEAN }

InitPlan ==
    /\ InitRun
    /\ JobsIdle
    /\ fn_in \in PlanInputs
    /\ fn_out = EmptyIn

ApplyContextualFormattingPlan ==
    /\ fn_out = EmptyIn
    /\ fn_in \in PlanInputs
    /\ fn_out' = ApplyFormattingPlan(fn_in.doc, fn_in.elements_details,
                                     fn_in.plan_actions, fn_in.saves)
    /\ UNCHANGED << runVars, fn_in, jobVars >>

NextPlan == ApplyContextualFormattingPlan

SpecPlan == InitPlan /\ [][NextPlan]_vars

PlanApplied == fn_out # EmptyIn /\ "actions_applied" \in DOMAIN fn_out

\* the plan without the entries of a set
RECURSIVE Without(_, _)
Without(plan_actions, entries) ==
    IF plan_actions = <<>> THEN <<>>
    ELSE IF Head(plan_actions) \in entries THEN Without(Tail(plan_actions), entries)
    ELSE <<Head(plan_actions)>> \o Without(Tail(plan_actions), entries)

\* C24: an entry of the plan that raises, has an unknown type or is no
\* mapping is counted as skipped; every other action is applied, and the
\* document is saved: the result is that of the plan without these entries,
\* with their number as the count of the skipped.
C24_BadActionNeverAbortsPlan ==
    (PlanApplied /\ fn_in.saves) =>
        LET good == Without(fn_in.plan_actions, BadEntries)
            rest == ApplyFormattingPlan(fn_in.doc, fn_in.elements_details, good, TRUE)
        IN  /\ fn_out.status = "success"
            /\ fn_out.saved = rest.saved
            /\ fn_out.actions_applied = rest.actions_applied
            /\ fn_out.actions_skipped_or_failed =
                   rest.actions_skipped_or_failed
                       + (Len(fn_in.plan_actions) - Len(good))


ScopeIs(pieces) == fn_in.action["scope"] = Str(pieces)

\* C26: set_font never raises on indices the document does not have:
\* paragraph_index_N with N negative or not less than the number of
\* paragraphs changes nothing, and with headings_level_N or
\* all_body_paragraphs the elements of the analysis whose paragraph_index is
\* no position of the document are skipped, the others modified.
C26_StaleIndicesAreSkipped ==
    (fn_out # EmptyIn /\ ActionIs("set_font")) =>
        /\ Formatted
        /\ (ScopeIs(<<"paragraph_index_", "7">>) \/ ScopeIs(<<"paragraph_index_", "-", "1">>))
               => fn_out.doc = fn_in.doc
        /\ ScopeIs(<<"all_body_paragraphs">>) =>
               \A n \in DOMAIN fn_in.doc :
                   IF ClassifiedParagraph(n) THEN HasFontOf(fn_out.doc[n], fn_in.action)
                   ELSE fn_out.doc[n] = fn_in.doc[n]
        /\ ScopeIs(<<"headings_level_", "1">>) =>
               \A n \in DOMAIN fn_in.doc :
                   IF ClassifiedHeading(n, Num(1))
                   THEN HasFontOf(fn_out.doc[n], fn_in.action)
                   ELSE fn_out.doc[n] = fn_in.doc[n]


IsSetFont(entry) == IsMapping(entry) /\ entry["action"] = Str(<<"set_font">>)

\* C27: a set_font action applied twice in succession, with the same
\* analysis, leaves the document as one application does.
C27_SetFontIsIdempotent ==
    (PlanApplied /\ Len(fn_in.plan_actions) = 2
        /\ fn_in.plan_actions[1] = fn_in.plan_actions[2]
        /\ IsSetFont(fn_in.plan_actions[1])) =>
        LET once == ApplyFormattingPlan(fn_in.doc, fn_in.elements_details,
                                        <<fn_in.plan_actions[1]>>, fn_in.saves)
        IN  fn_out.status = once.status /\ fn_out.saved = once.saved

\* the size 12 was set twice on the second paragraph: its runs have 12 pt
C27_Witness ==
    /\ PlanApplied
    /\ fn_in.plan_actions =
           << SetFont(Str(<<"paragraph_index_", "1">>), "size", Num(12)),
              SetFont(Str(<<"paragraph_index_", "1">>), "size", Num(12)) >>
    /\ fn_out.status = "success"
    /\ fn_out.actions_applied = 2
    /\ fn_out.saved.doc[2].runs[1].font_size = Num(12 * 12700)
    /\ fn_out.saved.doc[2].runs[1] # fn_in.doc[2].runs[1]

\* the positions of the plan whose action sets the font name of every paragraph
NameWriters(plan_actions) ==
    { k \in DOMAIN plan_actions :
        /\ IsSetFont(plan_actions[k])
        /\ plan_actions[k]["scope"] = Str(<<"all_paragraphs">>)
        /\ Truth(Get(plan_actions[k], "font_name")) }

Last(positions) == CHOOSE k \in positions : \A j \in positions : j <= k

\* C28: the actions are applied in the order of the list, with no rollback:
\* when several actions of the plan set the font name of the same runs, the
\* saved document has the name of the last of them.
C28_LaterActionWins ==
    (PlanApplied /\ fn_out.status = "success" /\ NameWriters(fn_in.plan_actions) # {}) =>
        \A n \in DOMAIN fn_in.doc :
            \A r \in DOMAIN fn_in.doc[n].runs :
                fn_out.saved.doc[n].runs[r].font_name =
                    fn_in.plan_actions[Last(NameWriters(fn_in.plan_actions))]["font_name"]

\* Arial then Courier for all paragraphs: the saved runs are in Courier
C28_Witness ==
    /\ PlanApplied
    /\ fn_in.plan_actions =
           << SetFont(Str(<<"all_paragraphs">>), "font_name", Str(<<"Arial">>)),
              SetFont(Str(<<"all_paragraphs">>), "font_name", Str(<<"Courier">>)) >>
    /\ fn_out.status = "success"
    /\ fn_out.saved.doc[1].runs[1].font_name = Str(<<"Courier">>)
    /\ fn_out.saved.doc[2].runs[2].font_name = Str(<<"Courier">>)


\* the four alignments of the comment of line 185
DocumentedAlignments == {"LEFT", "CENTER", "RIGHT", "JUSTIFY"}

IsDocumentedAlignment(alignment) ==
    /\ alignment.t = "str"
    /\ Len(alignment.w) = 1
    /\ Upper(alignment.w[1]) \in DocumentedAlignments

\* C29: set_paragraph_alignment_properties raises nothing; with one of LEFT,
\* CENTER, RIGHT, JUSTIFY in any case the alignment of the paragraph becomes
\* that value, and with any other value the alignment stays as it was.
C29_OnlyFourAlignments ==
    (fn_out # EmptyIn /\ ActionIs("set_alignment")
        /\ ScopeIs(<<"all_paragraphs">>)) =>
        /\ Formatted
        /\ \A n \in DOMAIN fn_in.doc :
               fn_out.doc[n].alignment =
                   IF IsDocumentedAlignment(Get(fn_in.action, "alignment"))
                   THEN Str(<<Upper(Get(fn_in.action, "alignment").w[1])>>)
                   ELSE fn_in.doc[n].alignment


\* the tool was invoked and its observation is a JSON object with an "error" key
ErrorPayloadFrom(tool_name) ==
    /\ fn_out # EmptyIn
    /\ fn_in.tool_name = tool_name
    /\ fn_out.invoked
    /\ fn_in.outcome.kind = "returns"
    /\ fn_in.outcome.obs.err

\* C30: a dispatch of analyze_document_structure or create_formatting_plan
\* whose observation is an error payload leaves the three cache slots as they
\* were: no error payload is stored, none replaces a cached analysis or plan.
C30_ErrorsAreNotCached ==
    (ErrorPayloadFrom("analyze_document_structure")
        \/ ErrorPayloadFrom("create_formatting_plan")) =>
        /\ fn_out.self = fn_in.self
        /\ \A n \in DOMAIN fn_out.events : fn_out.events[n].type # "data_store"


----------------------------------------------------------------------------
(* Claims about the cache slots and the history *)

\* the tool was invoked and returned an observation without an "error" key
SuccessFrom(tool_name) ==
    /\ fn_out # EmptyIn
    /\ fn_in.tool_name = tool_name
    /\ fn_out.invoked
    /\ fn_in.outcome.kind = "returns"
    /\ ~fn_in.outcome.obs.err

\* the placeholder's value after the dispatch
SubstitutedAfter(placeholder) == SubstituteValue(placeholder, fn_out.self)

\* C31: an analysis that reports the run's input path is stored, as it is, in
\* the original-analysis slot; one that reports the output path in the
\* modified-analysis slot; one that reports another path nowhere.  A plan is
\* stored in the plan slot.  The stored payload replaces what the slot held,
\* the other slots keep their content, and the slot's placeholder is
\* substituted by the stored payload.
C31_CacheRouting ==
    LET obs == fn_in.outcome.obs
        before == fn_in.self
        after == fn_out.self
    IN  /\ (SuccessFrom("analyze_document_structure") /\ obs.path # NoKey) =>
              /\ obs.path = before.current_doc_path =>
                    /\ after = [before EXCEPT !.full_original_analysis_json = obs]
                    /\ SubstitutedAfter(PLACEHOLDER_ORIGINAL_ANALYSIS) = obs
              /\ (obs.path = before.current_output_doc_path
                    /\ obs.path # before.current_doc_path) =>
                    /\ after = [before EXCEPT !.full_modified_analysis_json = obs]
                    /\ SubstitutedAfter(PLACEHOLDER_MODIFIED_ANALYSIS) = obs
              /\ obs.path \notin {before.current_doc_path, before.current_output_doc_path} =>
                    after = before
        /\ (SuccessFrom("create_formatting_plan") /\ obs.w \in {<<"{...}">>, <<"[...]">>}) =>
              /\ after = [before EXCEPT !.current_formatting_plan_json = JsonDumps(obs)]
              /\ SubstitutedAfter(PLACEHOLDER_FORMATTING_PLAN) = JsonDumps(obs)

\* an analysis of the output document replaced the cached one
C31_Witness ==
    /\ SuccessFrom("analyze_document_structure")
    /\ fn_in.outcome.obs.path = OutputDocPath
    /\ fn_in.self.full_modified_analysis_json # None
    /\ fn_in.self.full_original_analysis_json # None
    /\ fn_out.self.full_modified_analysis_json = fn_in.outcome.obs
    /\ fn_out.self.full_original_analysis_json = fn_in.self.full_original_analysis_json


\* the content, after the step, of the cache slot of that name
SlotAfter(variable) ==
    IF variable = "full_original_analysis_json" THEN full_original_analysis_json'
    ELSE IF variable = "full_modified_analysis_json" THEN full_modified_analysis_json'
    ELSE current_formatting_plan_json'

\* the step appended a pair to the history
Dispatched == Len(intermediate_steps') = Len(intermediate_steps) + 1

\* C32: of an observation longer than 1000 characters the pair appended to
\* the history has the first 1000 characters and the truncation marker, while
\* the slot the same dispatch stores it in has the whole observation; an
\* observation of at most 1000 characters enters the history as it is.
C32_PreviewInHistoryWholeInCache ==
    [][Dispatched =>
          LET pair == intermediate_steps'[Len(intermediate_steps')]
              preview == pair[2]
              observation_str == preview.of
          IN  /\ observation_str.len > 1000 => (preview.len = 1000 /\ preview.truncated)
              /\ observation_str.len <= 1000 =>
                    (preview.len = observation_str.len /\ ~preview.truncated)
              /\ \A n \in DOMAIN progress' :
                    progress'[n].type = "data_store" =>
                        SlotAfter(progress'[n].name) = observation_str]_vars

\* a plan of 1001 characters is in the slot and its preview in the history
C32_Witness ==
    /\ intermediate_steps # <<>>
    /\ intermediate_steps[Len(intermediate_steps)][2].truncated
    /\ intermediate_steps[Len(intermediate_steps)][2].len = 1000
    /\ intermediate_steps[Len(intermediate_steps)][2].of = JsonList(1001)
    /\ current_formatting_plan_json = JsonList(1001)


\* the event at position n of the step's events is followed, in the same
\* step, by an event of that type for the same name
FollowedBy(events, n, type) ==
    \E m \in DOMAIN events : m > n /\ events[m].type = type /\ events[m].name = events[n].name

\* the events of an iteration: every llm_call_start has its llm_call_end and
\* every tool_start the tool_end of the same tool
Bracketed(events) ==
    \A n \in DOMAIN events :
        /\ events[n].type = "llm_call_start" => FollowedBy(events, n, "llm_call_end")
        /\ events[n].type = "tool_start" => FollowedBy(events, n, "tool_end")

\* C33: in the events of every iteration each llm_call_start is followed by
\* an llm_call_end and each tool_start by the tool_end of the same tool,
\* whatever the outcome of the call; the iteration_start events are numbered
\* 1, 2, 3, ... without gaps.
C33_EventsAreBracketed ==
    [][i' # i =>
          /\ i' = i + 1
          /\ progress'[1].type = "iteration_start"
          /\ \A n \in DOMAIN progress' : n > 1 => progress'[n].type # "iteration_start"
          /\ Bracketed(progress')]_vars


----------------------------------------------------------------------------
(* apply_contextual_formatting and validate_formatting_result as tools:    *)
(* the checks of their argument, the documents they load and save, and the *)
(* storage logic of _execute_tool on what they return.                     *)

\* a value of an argument: its Python type t, what json.loads makes of it if
\* it is a str ("invalid" if it raises JSONDecodeError), whether the parsed
\* dict has the key "error" (for a list: whether its first entry is a dict
\* that has it), and its content: the "elements" of an analysis, the actions
\* of a plan
Json(t, json, error, items) == [t |-> t, json |-> json, error |-> error, items |-> items]

\* the type of the value after the parsing of lines 238-245 and 267-276
ParsedType(v) == IF v.t = "str" THEN v.json ELSE v.t

ErrorResult == [status |-> "error", raised |-> FALSE, loaded |-> <<>>, saved |-> <<>>]
ToolRaises(loaded) == [status |-> "raised", raised |-> TRUE, loaded |-> loaded, saved |-> <<>>]

\* a tool that does not look at the plan before it loads the document
PlanIsUsable(v) == v.t \in {"str", "list"}

\* lines 236-257: the plan is a list, or a str that parses to one, and its
\* first entry has no "error" key
PlanIsValid(v) ==
    /\ v.t \in {"str", "list"}
    /\ ParsedType(v) = "list"
    /\ ~v.error

\* lines 262-282: the analysis is a dict, or a str that parses to one, with
\* no "error" key and a non-empty "elements"; "error" in a parsed value that
\* is a number raises TypeError, .get on a parsed list raises AttributeError
AnalysisCheck(v) ==
    IF v = PLACEHOLDER_ORIGINAL_ANALYSIS THEN "error"
    ELSE IF v.t \notin {"str", "dict"} THEN "error"
    ELSE IF ParsedType(v) = "invalid" THEN "error"
    ELSE IF ParsedType(v) # "dict" THEN "raises"
    ELSE IF v.error THEN "error"
    ELSE IF v.items = <<>> THEN "error"
    ELSE "ok"

\* apply_contextual_formatting, lines 207-325.  loads and saves: whether
\* load_document and save_document succeed.  The result names the paths of
\* the documents loaded and saved.
ApplyContextualFormattingTool(tool_input, loads, saves) ==
    IF tool_input.t # "dict" THEN ErrorResult
    ELSE IF \E key \in {"doc_path", "formatting_plan_json", "document_analysis_json",
                        "output_doc_path"} : tool_input[key] = None
    THEN ErrorResult
    ELSE IF ~PlanIsValid(tool_input.formatting_plan_json) THEN ErrorResult
    ELSE IF AnalysisCheck(tool_input.document_analysis_json) = "error" THEN ErrorResult
    ELSE IF AnalysisCheck(tool_input.document_analysis_json) = "raises" THEN ToolRaises(<<>>)
    ELSE IF ~loads THEN ErrorResult
    ELSE LET done == ApplyFormattingPlan(DocBefore,
                         tool_input.document_analysis_json.items,
                         tool_input.formatting_plan_json.items, saves)
         IN  [status |-> done.status, raised |-> FALSE,
              loaded |-> <<tool_input.doc_path>>,
              saved |-> IF done.status = "success"
                        THEN <<tool_input.output_doc_path>> ELSE <<>>]

\* what the validation engine does: it is not initialised, it raises, it
\* answers with text that is no JSON, or with a report of some grade
ValidationEngines == {"none", "raises", "text", "Excellent", "Needs Improvement"}

\* lines 366-404 on one analysis argument: a str that is no JSON and a value
\* whose "error" test raises are caught by the except clauses of 401-404
ValidateAnalysisCheck(v) ==
    IF v.t \notin {"str", "dict"} THEN "error"
    ELSE IF ParsedType(v) \in {"invalid", "int"} THEN "error"
    ELSE IF ParsedType(v) = "dict" /\ v.error THEN "error"
    ELSE IF ParsedType(v) # "dict" THEN "raises"
    ELSE "ok"

\* lines 382-399: the plan is a str, a list, or a dict with an "error" key
ValidatePlanCheck(v) ==
    IF v.t \notin {"str", "list"} THEN "error"
    ELSE IF ParsedType(v) = "invalid" THEN "error"
    ELSE IF ParsedType(v) \in {"list", "dict"} /\ v.error THEN "error"
    ELSE "ok"

\* validate_formatting_result, lines 327-479: no line of it loads or saves a
\* document; the report is what the engine answered
ValidateFormattingResultTool(tool_input, engine) ==
    IF tool_input.t # "dict" THEN ErrorResult
    ELSE IF \E key \in {"original_doc_analysis_json", "modified_doc_analysis_json",
                        "formatting_plan_json", "user_goal"} : tool_input[key] = None
    THEN ErrorResult
    ELSE IF engine = "none" THEN ErrorResult
    ELSE LET original == ValidateAnalysisCheck(tool_input.original_doc_analysis_json)
             modified == ValidateAnalysisCheck(tool_input.modified_doc_analysis_json)
             plan == ValidatePlanCheck(tool_input.formatting_plan_json)
         IN  IF original = "error" \/ modified = "error" \/ plan = "error" THEN ErrorResult
             ELSE IF original = "raises" \/ modified = "raises" THEN ToolRaises(<<>>)
             ELSE IF engine \in {"raises", "text"} THEN ErrorResult
             ELSE [status |-> engine, raised |-> FALSE, loaded |-> <<>>, saved |-> <<>>]

\* what selected_tool.invoke does, as _execute_tool sees it
OutcomeOf(tool_result) ==
    IF tool_result.raised THEN [kind |-> "throws"]
    ELSE [kind |-> "returns",
          obs |-> JsonObject(NoKey, tool_result.status = "error", 120)]

PlanValues ==
    { None,
      Json("str", "invalid", FALSE, <<>>),
      Json("str", "dict", TRUE, <<>>),
      Json("str", "list", FALSE, <<>>),
      Json("str", "list", FALSE,
           <<SetFont(Str(<<"all_paragraphs">>), "font_name", Str(<<"Arial">>))>>),
      Json("str", "list", FALSE,
           <<Str(<<"set_font">>),
             SetFont(Str(<<"all_paragraphs">>), "font_name", Str(<<"Arial">>))>>),
      Json("str", "list", TRUE, <<>>),
      Json("list", "list", FALSE,
           <<SetAlignment(Str(<<"all_paragraphs">>), Str(<<"center">>))>>),
      Json("dict", "dict", TRUE, <<>>),
      Json("int", "int", FALSE, <<>>) }

AnalysisValues ==
    { None,
      PLACEHOLDER_ORIGINAL_ANALYSIS,
      Json("str", "invalid", FALSE, <<>>),
      Json("str", "dict", FALSE, ElementsDetails),
      Json("str", "dict", TRUE, <<>>),
      Json("str", "dict", FALSE, <<>>),
      Json("dict", "dict", FALSE, ElementsDetails),
      Json("str", "int", FALSE, <<>>),
      Json("str", "list", FALSE, <<>>),
      Json("int", "int", FALSE, <<>>) }

\* the arguments the engine can write for apply_contextual_formatting
ApplyToolInputs ==
    { Str(<<InputDocPath>>) } \cup
    { [t |-> "dict", doc_path |-> d, formatting_plan_json |-> p,
       document_analysis_json |-> a, output_doc_path |-> o] :
          d \in {None, Str(<<InputDocPath>>)},
          p \in PlanValues,
          a \in AnalysisValues,
          o \in {None, Str(<<OutputDocPath>>), Str(<<InputDocPath>>)} }

\* the arguments the engine can write for validate_formatting_result
ValidateToolInputs ==
    { Str(<<"validate">>) } \cup
    { [t |-> "dict", original_doc_analysis_json |-> a, modified_doc_analysis_json |-> m,
       formatting_plan_json |-> p, user_goal |-> g] :
          a \in {None, Json("str", "dict", FALSE, ElementsDetails),
                 Json("str", "dict", TRUE, <<>>), Json("str", "list", FALSE, <<>>)},
          m \in {None, Json("str", "dict", FALSE, ElementsDetails),
                 Json("str", "invalid", FALSE, <<>>)},
          p \in {None, Json("str", "list", FALSE, <<>>), Json("dict", "dict", TRUE, <<>>),
                 Json("str", "list", TRUE, <<>>)},
          g \in {None, Str(<<"goal">>)} }

\* the agent before the dispatch: nothing cached, or everything
ToolSelves ==
    { s \in Selves :
        \/ /\ s.full_original_analysis_json = None
           /\ s.current_formatting_plan_json = None
           /\ s.full_modified_analysis_json = None
        \/ /\ s.full_original_analysis_json # None
           /\ s.current_formatting_plan_json # None
           /\ s.full_modified_analysis_json # None }

ToolsInputs ==
    { [tool_name |-> "apply_contextual_formatting", tool_input |-> a, self |-> s,
       loads |-> l, saves |-> w, engine |-> "none"] :
          a \in ApplyToolInputs, s \in ToolSelves, l \in BOOLEAN, w \in BOOLEAN }
    \cup
    { [tool_name |-> "validate_formatting_result", tool_input |-> a, self |-> s,
       loads |-> TRUE, saves |-> TRUE, engine |-> e] :
          a \in ValidateToolInputs, s \in ToolSelves, e \in ValidationEngines }

InitTools ==
    /\ InitRun
    /\ JobsIdle
    /\ fn_in \in ToolsInputs
    /\ fn_out = EmptyIn

\* the tool's result and the agent after lines 193-227 of _execute_tool
Invoked(tool_result) ==
    [tool |-> tool_result,
     ret |-> IF tool_result.raised THEN ToolErrorObservation(fn_in.tool_name)
             ELSE OutcomeOf(tool_result).obs,
     self |-> IF tool_result.raised THEN fn_in.self
              ELSE StoreObservation(fn_in.tool_name, OutcomeOf(tool_result).obs, fn_in.self)]

InvokeApplyContextualFormatting ==
    /\ fn_out = EmptyIn
    /\ fn_in.tool_name = "apply_contextual_formatting"
    /\ fn_out' = Invoked(ApplyContextualFormattingTool(fn_in.tool_input, fn_in.loads,
                                                       fn_in.saves))
    /\ UNCHANGED << runVars, fn_in, jobVars >>

InvokeValidateFormattingResult ==
    /\ fn_out = EmptyIn
    /\ fn_in.tool_name = "validate_formatting_result"
    /\ fn_out' = Invoked(ValidateFormattingResultTool(fn_in.tool_input, fn_in.engine))
    /\ UNCHANGED << runVars, fn_in, jobVars >>

NextTools == InvokeApplyContextualFormatting \/ InvokeValidateFormattingResult

SpecTools == InitTools /\ [][NextTools]_vars

\* the tool of that name was dispatched
ToolDone(tool_name) == fn_out # EmptyIn /\ fn_in.tool_name = tool_name

\* C34: a dispatch of apply_contextual_formatting or validate_formatting_result
\* leaves the three cache slots as they were, and validate_formatting_result
\* loads and saves no document, whatever the grade of its report.
C34_ValidationIsAdvisory ==
    /\ (ToolDone("apply_contextual_formatting") \/ ToolDone("validate_formatting_result")) =>
           fn_out.self = fn_in.self
    /\ ToolDone("validate_formatting_result") =>
           fn_out.tool.loaded = <<>> /\ fn_out.tool.saved = <<>>

\* a report that asks for improvement, with all three slots filled
C34_Witness ==
    /\ ToolDone("validate_formatting_result")
    /\ fn_out.tool.status = "Needs Improvement"
    /\ fn_in.self.current_formatting_plan_json # None
    /\ fn_out.self = fn_in.self


\* the input of apply_contextual_formatting is invalid in one of the ways
\* listed: no mapping, a required key missing, a plan that is no JSON list
\* or whose first entry has an error, an analysis with an error or without
\* elements
InvalidApplyInput(tool_input) ==
    \/ tool_input.t # "dict"
    \/ \E key \in {"doc_path", "formatting_plan_json", "document_analysis_json",
                   "output_doc_path"} : tool_input[key] = None
    \/ ParsedType(tool_input.formatting_plan_json) # "list"
    \/ tool_input.formatting_plan_json.error
    \/ /\ tool_input.document_analysis_json # PLACEHOLDER_ORIGINAL_ANALYSIS
       /\ ParsedType(tool_input.document_analysis_json) = "dict"
       /\ \/ tool_input.document_analysis_json.error
          \/ tool_input.document_analysis_json.items = <<>>

\* C35: on an invalid input apply_contextual_formatting returns an error
\* observation and neither loads nor saves a document; whenever it returns
\* an error, no document has been saved.
C35_InvalidInputTouchesNoDocument ==
    ToolDone("apply_contextual_formatting") =>
        /\ InvalidApplyInput(fn_in.tool_input) =>
              /\ fn_out.tool.status = "error"
              /\ fn_out.ret.err
              /\ fn_out.tool.loaded = <<>>
              /\ fn_out.tool.saved = <<>>
        /\ fn_out.tool.status # "success" => fn_out.tool.saved = <<>>

\* the cached error payload of a failed planning was given as the plan
C35_Witness ==
    /\ ToolDone("apply_contextual_formatting")
    /\ fn_in.tool_input.t = "dict"
    /\ fn_in.tool_input.doc_path # None
    /\ fn_in.tool_input.output_doc_path # None
    /\ fn_in.tool_input.formatting_plan_json = Json("str", "dict", TRUE, <<>>)
    /\ fn_in.tool_input.document_analysis_json = Json("str", "dict", FALSE, ElementsDetails)
    /\ fn_in.loads /\ fn_in.saves
    /\ fn_out.tool.status = "error"
    /\ fn_out.tool.loaded = <<>>

\* C38: no save of apply_contextual_formatting goes to the path of the run's
\* input document.
C38_InputDocumentIsNeverOverwritten ==
    ToolDone("apply_contextual_formatting") =>
        \A n \in DOMAIN fn_out.tool.saved :
            fn_out.tool.saved[n] # Str(<<fn_in.self.current_doc_path>>)


\* the paragraphs of the document a handler changed
Touched(handler_result) ==
    IF Raised(handler_result) THEN {}
    ELSE { n \in DOMAIN fn_in.doc : handler_result.doc[n] # fn_in.doc[n] }

\* the targets of each scoped action: the paragraphs changed by an action of
\* that scope whose value no paragraph of the document has
FontTargets(scope) ==
    Touched(ApplySetFontAction(fn_in.doc, fn_in.elements_details,
                SetFont(scope, "font_name", Str(<<"Courier">>))))

SpacingTargets(scope) ==
    Touched(ApplySetParagraphSpacingAction(fn_in.doc, fn_in.elements_details,
                [NoKeys EXCEPT !["action"] = Str(<<"set_paragraph_spacing">>),
                               !["scope"] = scope, !["spacing_before"] = Num(12)]))

AlignmentTargets(scope) ==
    Touched(ApplySetAlignmentAction(fn_in.doc, fn_in.elements_details,
                SetAlignment(scope, Str(<<"RIGHT">>))))

\* the scope is of one of the four forms
IsScopeForm(scope) ==
    /\ scope # None
    /\ scope.t = "str"
    /\ scope.w # <<>>
    /\ scope.w[1] \in {"all_paragraphs", "all_body_paragraphs", "headings_level_",
                       "paragraph_index_"}

\* C36: for a scope of each of the four forms, set_font, set_paragraph_spacing
\* and set_alignment target the same paragraphs of the document.
C36_ScopesResolveAlike ==
    (Formatted /\ IsScopeForm(Get(fn_in.action, "scope"))) =>
        LET scope == Get(fn_in.action, "scope")
        IN  /\ FontTargets(scope) = SpacingTargets(scope)
            /\ FontTargets(scope) = AlignmentTargets(scope)


\* C37: a job that is queued ends in completed or in error.
C37_QueuedJobEnds ==
    (job_status = "queued") ~> (job_status \in {"completed", "error"})

\* the loop ran to the cap, run returned, and the assembly of the result failed
C37_Witness ==
    /\ pc = "done"
    /\ i = max_iterations
    /\ result = Return("Agent reached maximum iterations.", <<>>)
    /\ job_status = "error"


----------------------------------------------------------------------------
(* api/websocket_manager.py: ConnectionManager.  active_connections maps a *)
(* job id to the list of its websockets; a key is deleted with its last    *)
(* websocket, so a job without a key is a job with the empty list.  Each   *)
(* websocket is the connection of one call of websocket_endpoint, for one  *)
(* job id.  A step of the model is the code between two awaits.            *)

RECURSIVE Remove(_, _)
\* list.remove(x): the list without the first x
Remove(list, x) ==
    IF list = <<>> THEN <<>>
    ELSE IF Head(list) = x THEN Tail(list)
    ELSE <<Head(list)>> \o Remove(Tail(list), x)

Members(list) == { list[n] : n \in DOMAIN list }

\* the websockets of every job
RecipientsOfAnyJob(job_id) == UNION { Members(active_connections[j]) : j \in JobIds }

\* broadcast_to_job_async, line 74: list(self.active_connections.get(job_id, []))
Recipients(job_id) == Members(active_connections[job_id])

\* disconnect, lines 38-49, on the connections conns
Disconnected(conns, job_id, websocket) ==
    [conns EXCEPT ![job_id] = Remove(@, websocket)]

\* _send_json_to_websocket, lines 58-62: the websocket is removed from the
\* first job whose list has it
RemovedEverywhere(conns, websocket) ==
    IF \E job_id \in JobIds : websocket \in Members(conns[job_id])
    THEN LET job_id == CHOOSE j \in JobIds : websocket \in Members(conns[j])
         IN  Disconnected(conns, job_id, websocket)
    ELSE conns

\* websocket_endpoint line 300 and connect, lines 22-26: accept is awaited;
\* if it returns, the websocket is appended to the list of the job
Connect(job_id, websocket, accepted) ==
    /\ sockets[websocket].pc = "new"
    /\ IF accepted
       THEN /\ active_connections' =
                   [active_connections EXCEPT ![job_id] = Append(@, websocket)]
            /\ sockets' = [sockets EXCEPT ![websocket] = [job |-> job_id, pc |-> "acking"]]
       ELSE /\ sockets' = [sockets EXCEPT ![websocket] = [job |-> job_id, pc |-> "closed"]]
            /\ UNCHANGED active_connections
    /\ UNCHANGED << runVars, fnVars, jobs_db, tasks, response, agents, broadcasts, delivered >>

\* connect, lines 29-35: the acknowledgement is sent; if send_json raises,
\* the exception leaves websocket_endpoint before its try, and the websocket
\* stays in the list
ConnectAck(websocket, sent) ==
    /\ sockets[websocket].pc = "acking"
    /\ sockets' = [sockets EXCEPT ![websocket].pc = IF sent THEN "open" ELSE "broken"]
    /\ UNCHANGED << runVars, fnVars, jobs_db, tasks, response, agents,
                    active_connections, broadcasts, delivered >>

\* websocket_endpoint, lines 301-315: the client goes, the finally clause
\* calls disconnect
EndpointDisconnect(websocket) ==
    /\ sockets[websocket].pc = "open"
    /\ active_connections' =
           Disconnected(active_connections, sockets[websocket].job, websocket)
    /\ sockets' = [sockets EXCEPT ![websocket].pc = "closed"]
    /\ UNCHANGED << runVars, fnVars, jobs_db, tasks, response, agents, broadcasts, delivered >>

\* broadcast_to_job_async, lines 65-75: one send is created for each
\* websocket of the job's list as it is now
BroadcastToJob(b, job_id) ==
    /\ ~broadcasts[b].started
    /\ \A earlier \in Broadcasts : earlier < b => broadcasts[earlier].started
    /\ broadcasts' = [broadcasts EXCEPT ![b] =
           [job |-> job_id, pending |-> Recipients(job_id), started |-> TRUE]]
    /\ UNCHANGED << runVars, fnVars, jobs_db, tasks, response, agents,
                    active_connections, sockets, delivered >>

\* _send_json_to_websocket, lines 52-62, for one send of a broadcast: the
\* message arrives, or send_json raises and the websocket is removed; a
\* send to a websocket that is closed raises
SendJsonToWebsocket(b, websocket, sent) ==
    /\ websocket \in broadcasts[b].pending
    /\ sent => sockets[websocket].pc # "closed"
    /\ broadcasts' = [broadcasts EXCEPT ![b].pending = @ \ {websocket}]
    /\ IF sent
       THEN /\ delivered' = delivered \cup
                   {[websocket |-> websocket, job |-> broadcasts[b].job, broadcast |-> b]}
            /\ UNCHANGED active_connections
       ELSE /\ active_connections' = RemovedEverywhere(active_connections, websocket)
            /\ UNCHANGED delivered
    /\ UNCHANGED << runVars, fnVars, jobs_db, tasks, response, agents, sockets >>

NextSockets ==
    \/ \E job_id \in JobIds, websocket \in Sockets, accepted \in BOOLEAN :
           Connect(job_id, websocket, accepted)
    \/ \E websocket \in Sockets, sent \in BOOLEAN : ConnectAck(websocket, sent)
    \/ \E websocket \in Sockets : EndpointDisconnect(websocket)
    \/ \E b \in Broadcasts, job_id \in JobIds : BroadcastToJob(b, job_id)
    \/ \E b \in Broadcasts, websocket \in Sockets, sent \in BOOLEAN :
           SendJsonToWebsocket(b, websocket, sent)

SpecSockets == Init /\ [][NextSockets]_vars

\* the step is a send of broadcast b to the websocket that raised
SendFailed(b, websocket) ==
    /\ websocket \in broadcasts[b].pending
    /\ websocket \notin broadcasts'[b].pending
    /\ delivered' = delivered

\* C39: a message broadcast for a job arrives only at websockets registered
\* under that job; a send that fails removes the websocket it failed on, and
\* leaves the other websockets registered and the other sends of the
\* broadcast awaited.
C39_BroadcastStaysInJob ==
    /\ [](\A d \in delivered : sockets[d.websocket].job = d.job)
    /\ [][\A b \in Broadcasts, websocket \in Sockets :
              SendFailed(b, websocket) =>
                  /\ \A job_id \in JobIds :
                        Members(active_connections'[job_id]) =
                            Members(active_connections[job_id]) \ {websocket}
                  /\ broadcasts'[b].pending = broadcasts[b].pending \ {websocket}]_vars

\* one broadcast of a job with two websockets, while another job has one:
\* the send to the first failed and removed it, the second got the message
C39_Witness ==
    \E b \in Broadcasts, failed \in Sockets, other \in Sockets, foreign \in Sockets :
        /\ failed # other
        /\ sockets[failed].job = broadcasts[b].job
        /\ sockets[other].job = broadcasts[b].job
        /\ sockets[foreign].job \notin {"", broadcasts[b].job}
        /\ foreign \in Members(active_connections[sockets[foreign].job])
        /\ broadcasts[b].started /\ broadcasts[b].pending = {}
        /\ failed \notin Members(active_connections[broadcasts[b].job])
        /\ sockets[failed].pc \in {"acking", "open", "broken"}
        /\ [websocket |-> other, job |-> broadcasts[b].job, broadcast |-> b] \in delivered
        /\ \A d \in delivered : d.websocket # foreign


----------------------------------------------------------------------------
(* retry_on_rate_limit, lines 47-66, around any function: func[n] is what  *)
(* the n-th call of the function does, a value it returns or the exception *)
(* it raises.                                                              *)

FuncOutcomes ==
    { [t |-> "return", value |-> "first"], [t |-> "return", value |-> "second"],
      Raise("Exception", <<"Rate", "limit", "reached">>),
      Raise("Exception", <<"RATE", "LIMIT">>),
      Raise("Exception", <<"rate_limit_exceeded">>),
      Raise("ValueError", <<"Connection", "error">>) }

\* the exception of line 63
MaxRetriesExceeded ==
    Raise("Exception", <<"Max", "retries", "exceeded", "for", "rate", "limit">>)

\* a wait that does not grow
WaitTimeFlat(retries) == delay

\* line 58: wait_time = delay * (2 ** retries)
WaitTime(retries) == delay * (2 ^ retries)

RECURSIVE Wrapper(_, _, _)
\* wrapper, lines 51-63: the while loop from the value retries has
Wrapper(func, retries, waits) ==
    IF ~(retries < max_retries)
    THEN [result |-> MaxRetriesExceeded, calls |-> retries, waits |-> waits]
    ELSE LET call == func[retries + 1]
         IN  IF ~Raised(call)
             THEN [result |-> call, calls |-> retries + 1, waits |-> waits]
             ELSE IF HasRateLimit(call.about)
             THEN Wrapper(func, retries + 1, Append(waits, WaitTime(retries)))
             ELSE [result |-> call, calls |-> retries + 1, waits |-> waits]

WrapperInputs == [1..max_retries -> FuncOutcomes]

InitWrapper ==
    /\ InitRun
    /\ JobsIdle
    /\ fn_in \in WrapperInputs
    /\ fn_out = EmptyIn

\* one call of the decorated function
CallWrapper ==
    /\ fn_out = EmptyIn
    /\ fn_in \in WrapperInputs
    /\ fn_out' = Wrapper(fn_in, 0, <<>>)
    /\ UNCHANGED << runVars, fn_in, jobVars >>

NextWrapper == CallWrapper

SpecWrapper == InitWrapper /\ [][NextWrapper]_vars

\* the exception carries the words rate limit, in any case
IsRateLimitFailure(call) ==
    /\ Raised(call)
    /\ \E n \in 1..(Len(call.about) - 1) :
           /\ call.about[n] \in {"rate", "Rate", "RATE"}
           /\ call.about[n + 1] \in {"limit", "Limit", "LIMIT"}

\* the calls before the n-th all failed on the rate limit
AllRateLimited(func, n) == \A m \in 1..(n - 1) : IsRateLimitFailure(func[m])

\* C40: the decorated function is called at most 3 times; the first call
\* that returns ends the wrapper with its value; only a rate-limit
\* exception is followed by another call, after waits of 2, 4 and 8 seconds;
\* any other exception leaves the wrapper as it is; three rate-limit
\* failures end in "Max retries exceeded for rate limit".
C40_RetryOnRateLimit ==
    (fn_out # EmptyIn /\ fn_in \in WrapperInputs) =>
        /\ fn_out.calls <= 3
        /\ \A n \in 1..3 :
               (AllRateLimited(fn_in, n) /\ ~IsRateLimitFailure(fn_in[n])) =>
                   /\ fn_out.calls = n
                   /\ fn_out.result = fn_in[n]
                   /\ fn_out.waits = SubSeq(<<2, 4, 8>>, 1, n - 1)
        /\ AllRateLimited(fn_in, 4) =>
               /\ fn_out.calls = 3
               /\ fn_out.waits = <<2, 4, 8>>
               /\ fn_out.result = MaxRetriesExceeded

\* two rate-limit failures, in different cases, then a value
C40_Witness ==
    /\ fn_in \in WrapperInputs
    /\ fn_out # EmptyIn
    /\ fn_in[1] = Raise("Exception", <<"RATE", "LIMIT">>)
    /\ fn_in[2] = Raise("Exception", <<"Rate", "limit", "reached">>)
    /\ fn_in[3] = [t |-> "return", value |-> "second"]
    /\ fn_out = [result |-> fn_in[3], calls |-> 3, waits |-> <<2, 4>>]

====
